---- MODULE Spec2Model ----
(***************************************************************************)
(* A model of pipkin's synchronisation engine: the adapters of             *)
(* src/pipkin/adapters.py acting on a target file system, the Session of   *)
(* src/pipkin/session.py (populate, pip, diff, reconcile) and the entry    *)
(* point of src/pipkin/__init__.py with the sandbox lock.                  *)
(*                                                                         *)
(* Strings.  A Python string is modelled as the sequence of its lexemes:   *)
(* "/lib/foo-1.0.dist-info" is <<"/","lib","/","foo","-","1.0",            *)
(* ".dist-info">>.  The separators the code looks for ("/", "-", ",",      *)
(* "..", ".dist-info") are lexemes of their own and no lexeme is a prefix  *)
(* of another, so startswith, endswith, split, join and the lexicographic  *)
(* order act on lexemes exactly as they act on characters.  The length of  *)
(* a string is its number of characters.                                   *)
(***************************************************************************)
EXTENDS Naturals, Sequences, FiniteSets, TLC

VARIABLES
    kind,       \* the adapter class: "dir" (DirAdapter) or "mount" (MountAdapter)
    fs,         \* the host file system holding the target: [files, dirs]
    reversed,   \* whether the file system lists directories in descending order
    venv,       \* the sandbox's site-packages: [files, mtime]
    clock,      \* the host's clock, the source of st_mtime
    last,       \* what the last operation did: arguments, calls, outcome
    nops,       \* the number of operations run so far
    proxies,    \* the number of index proxies running on the host
    pc,         \* each process's position in its run
    holders,    \* the locks held: [proc, venv_dir, file]
    exit,       \* the exception each process's run ended with, "none" if with none
    workspaces  \* the workspaces directory: each sandbox's directory, lock file and state

lockVars == <<pc, holders, exit, workspaces>>
vars == <<kind, fs, reversed, venv, clock, last, nops, proxies, pc, holders, exit, workspaces>>

(***************************************************************************)
(* Bounds of the model.                                                    *)
(***************************************************************************)
MaxOps == 1
\* the rows of a file that make one block of write_file (4 KiB in the program)
block_size == 2

(***************************************************************************)
(* Strings.                                                                *)
(***************************************************************************)
\* The lexemes in ascending character order (ASCII).
Alphabet == <<",", "-", "..", ".dist-info", ".frozen", ".py", "/", "1.0", "2.0",
              "INSTALLER", "METADATA", "RECORD", "a", "bar", "bin", "boot_out.txt",
              "flash", "foo", "h", "lib", "mnt", "n", "pip", "x">>

RankOf == [tok \in {Alphabet[i] : i \in 1..Len(Alphabet)} |->
              CHOOSE i \in 1..Len(Alphabet) : Alphabet[i] = tok]
Rank(tok) == RankOf[tok]

RECURSIVE StrLen(_)
StrLen(s) == IF s = <<>> THEN 0 ELSE Len(Head(s)) + StrLen(Tail(s))

\* s < t in Python's string order
RECURSIVE StrLess(_, _)
StrLess(s, t) ==
    IF t = <<>> THEN FALSE
    ELSE IF s = <<>> THEN TRUE
    ELSE IF Head(s) = Head(t) THEN StrLess(Tail(s), Tail(t))
    ELSE Rank(Head(s)) < Rank(Head(t))

startswith(s, p) == Len(s) >= Len(p) /\ SubSeq(s, 1, Len(p)) = p
endswith(s, p) == Len(s) >= Len(p) /\ SubSeq(s, Len(s) - Len(p) + 1, Len(s)) = p
contains(s, tok) == \E i \in 1..Len(s) : s[i] = tok

\* s.split(sep): the pieces between the occurrences of sep
RECURSIVE Split(_, _)
Split(s, sep) ==
    IF \A i \in 1..Len(s) : s[i] # sep THEN <<s>>
    ELSE LET i == CHOOSE k \in 1..Len(s) : s[k] = sep /\ \A j \in 1..(k-1) : s[j] # sep
         IN  <<SubSeq(s, 1, i - 1)>> \o Split(SubSeq(s, i + 1, Len(s)), sep)

\* sep.join(parts)
RECURSIVE Join(_, _)
Join(parts, sep) ==
    IF parts = <<>> THEN <<>>
    ELSE IF Len(parts) = 1 THEN parts[1]
    ELSE parts[1] \o <<sep>> \o Join(Tail(parts), sep)

\* Optional[str]: None is a value no string equals
None == <<"<None>">>
Truthy(s) == s # None /\ s # <<>>

\* The sequence of the elements of a set of strings, ascending
RECURSIVE Sorted(_)
Sorted(S) ==
    IF S = {} THEN <<>>
    ELSE LET m == CHOOSE x \in S : \A y \in S : y = x \/ StrLess(x, y)
         IN  <<m>> \o Sorted(S \ {m})

Reverse(q) == [i \in 1..Len(q) |-> q[Len(q) + 1 - i]]

(***************************************************************************)
(* The host file system.  A local path is the sequence of the components   *)
(* of the normalised absolute path; fs.dirs holds every directory (with    *)
(* all its ancestors), fs.files maps every regular file to its content.    *)
(* A content is a sequence of lines, each line a string.                   *)
(***************************************************************************)
\* The base_path the adapter was constructed with; a mount point or directory of the host
BasePath == <<"/", "mnt">>

\* os.path.normpath of an absolute path, as its sequence of components
RECURSIVE NormSegs(_, _)
NormSegs(segs, acc) ==
    IF segs = <<>> THEN acc
    ELSE LET s == Head(segs)
         IN  IF s = <<>> THEN NormSegs(Tail(segs), acc)
             ELSE IF s = <<"..">>
                  THEN NormSegs(Tail(segs),
                                IF acc = <<>> THEN acc ELSE SubSeq(acc, 1, Len(acc) - 1))
                  ELSE NormSegs(Tail(segs), Append(acc, s))

normpath(p) == NormSegs(Split(p, "/"), <<>>)

IsPrefix(p, q) == Len(p) <= Len(q) /\ SubSeq(q, 1, Len(p)) = p
Prefixes(p) == {SubSeq(p, 1, n) : n \in 0..Len(p)}

isfile(f, p) == p \in DOMAIN f.files
isdir(f, p) == p \in f.dirs
exists(f, p) == isfile(f, p) \/ isdir(f, p)

\* os.listdir: the names of the entries of directory p
listdir(f, p) ==
    {q[Len(p) + 1] : q \in {r \in (DOMAIN f.files) \cup f.dirs :
                              Len(r) = Len(p) + 1 /\ IsPrefix(p, r)}}

\* The order os.listdir yields the names in is the file system's choice: rev picks it
Listing(S, rev) == IF rev THEN Reverse(Sorted(S)) ELSE Sorted(S)

\* A function without the key k
Without(fn, k) == [x \in (DOMAIN fn) \ {k} |-> fn[x]]
\* A function with key k set to v
With(fn, k, v) == [x \in (DOMAIN fn) \cup {k} |-> IF x = k THEN v ELSE fn[x]]

(***************************************************************************)
(* The world an operation runs in: the file system, the pending exception, *)
(* the log of the changes made through the adapter and of the remove_dist  *)
(* calls (path then holds the name of the distribution), the warnings      *)
(* logged and the order directory listings come in.                        *)
(***************************************************************************)
World(f, rev) == [fs |-> f, exc |-> "none", calls |-> <<>>, warnings |-> 0, rev |-> rev]
Raise(st, e) == [st EXCEPT !.exc = e]
Call(st, op, path) == [st EXCEPT !.calls = Append(@, [op |-> op, path |-> path])]

(***************************************************************************)
(* pipkin.util.parse_meta_dir_name: "<name>-<version>.dist-info".          *)
(***************************************************************************)
MetaSuffix == <<".dist-info">>

parse_ok(dir_name) ==
    /\ endswith(dir_name, MetaSuffix)
    /\ Len(Split(SubSeq(dir_name, 1, Len(dir_name) - 1), "-")) = 2

parse_meta_dir_name(dir_name) == Split(SubSeq(dir_name, 1, Len(dir_name) - 1), "-")

(***************************************************************************)
(* BaseAdapter's path utilities.                                           *)
(***************************************************************************)
join_path(parts) == Join(parts, "/")

\* path.rsplit("/", maxsplit=1)
split_dir_and_basename(path) ==
    LET i == CHOOSE k \in 1..Len(path) :
                 path[k] = "/" /\ \A j \in (k+1)..Len(path) : path[j] # "/"
    IN  <<SubSeq(path, 1, i - 1), SubSeq(path, i + 1, Len(path))>>

(***************************************************************************)
(* LocalMirrorAdapter: the file operations on the mirror of the target.    *)
(***************************************************************************)
\* the exception convert_to_local_path raises for device_path, or "none"
convert_exc(device_path) ==
    IF device_path = None THEN "AttributeError"
    ELSE IF ~startswith(device_path, <<"/">>) THEN "AssertionError"
    ELSE "none"

convert_to_local_path(device_path) == normpath(BasePath \o device_path)

\* read_file: [exc, val]
read_file(f, path) ==
    IF convert_exc(path) # "none" THEN [exc |-> convert_exc(path), val |-> <<>>]
    ELSE IF ~isfile(f, convert_to_local_path(path))
         THEN [exc |-> "AssertionError", val |-> <<>>]
         ELSE [exc |-> "none", val |-> f.files[convert_to_local_path(path)]]

\* the loop of write_file over the blocks of content, a block counted in rows: what
\* is done to the open file, in order
RECURSIVE write_blocks(_, _)
write_blocks(content, events) ==
    IF content = <<>> THEN events
    ELSE LET n == IF Len(content) < block_size THEN Len(content) ELSE block_size
             block == SubSeq(content, 1, n)
         IN  write_blocks(SubSeq(content, n + 1, Len(content)),
                          events \o <<[op |-> "write", block |-> block],
                                      [op |-> "flush", block |-> <<>>],
                                      [op |-> "fsync", block |-> <<>>]>>)

\* what a file opened with "wb" holds after the events: the blocks written, in order
RECURSIVE file_data(_)
file_data(events) ==
    IF events = <<>> THEN <<>>
    ELSE (IF Head(events).op = "write" THEN Head(events).block ELSE <<>>)
         \o file_data(Tail(events))

\* the file is opened for appending: what it held stays in front of the buffer
write_file_appending(st, path, content) ==
    IF st.exc # "none" THEN st
    ELSE IF convert_exc(path) # "none" THEN Raise(st, convert_exc(path))
    ELSE LET local == convert_to_local_path(path)
             parent == SubSeq(local, 1, Len(local) - 1)
             old == IF isfile(st.fs, local) THEN st.fs.files[local] ELSE <<>>
         IN  IF isdir(st.fs, local) THEN Raise(st, "AssertionError")
             ELSE IF isfile(st.fs, parent) THEN Raise(st, "NotADirectoryError")
             ELSE IF ~isdir(st.fs, parent) THEN Raise(st, "FileNotFoundError")
             ELSE Call([st EXCEPT !.fs.files =
                            With(@, local, old \o file_data(write_blocks(content, <<>>)))],
                       "write_file", path)

write_file(st, path, content) ==
    IF st.exc # "none" THEN st
    ELSE IF convert_exc(path) # "none" THEN Raise(st, convert_exc(path))
    ELSE LET local == convert_to_local_path(path)
             parent == SubSeq(local, 1, Len(local) - 1)
         IN  IF isdir(st.fs, local) THEN Raise(st, "AssertionError")
             ELSE IF isfile(st.fs, parent) THEN Raise(st, "NotADirectoryError")
             ELSE IF ~isdir(st.fs, parent) THEN Raise(st, "FileNotFoundError")
             ELSE Call([st EXCEPT !.fs.files =
                            With(@, local, file_data(write_blocks(content, <<>>)))],
                       "write_file", path)

remove_file(st, path) ==
    IF st.exc # "none" THEN st
    ELSE IF convert_exc(path) # "none" THEN Raise(st, convert_exc(path))
    ELSE LET local == convert_to_local_path(path)
         IN  IF ~isfile(st.fs, local) THEN Raise(st, "AssertionError")
             ELSE Call([st EXCEPT !.fs.files = Without(@, local)], "remove_file", path)

remove_dir_if_empty(st, path) ==
    IF st.exc # "none" THEN st
    ELSE IF convert_exc(path) # "none" THEN Raise(st, convert_exc(path))
    ELSE LET local == convert_to_local_path(path)
         IN  IF ~isdir(st.fs, local) THEN Raise(st, "AssertionError")
             ELSE IF listdir(st.fs, local) # {} THEN st
             ELSE Call([st EXCEPT !.fs.dirs = @ \ {local}], "rmdir", path)

create_dir_if_doesnt_exist(st, path) ==
    IF st.exc # "none" THEN st
    ELSE IF convert_exc(path) # "none" THEN Raise(st, convert_exc(path))
    ELSE LET local == convert_to_local_path(path)
         IN  IF isdir(st.fs, local) THEN st
             ELSE IF exists(st.fs, local) THEN Raise(st, "AssertionError")
             ELSE IF \E a \in Prefixes(local) : isfile(st.fs, a)
                  THEN Raise(st, "NotADirectoryError")
                  ELSE Call([st EXCEPT !.fs.dirs = @ \cup Prefixes(local)],
                            "makedirs", path)

\* list_meta_dir_names: [exc, val], val the names in listing order
list_meta_dir_names(st, path, dist_name) ==
    IF convert_exc(path) # "none" THEN [exc |-> convert_exc(path), val |-> <<>>]
    ELSE LET local == convert_to_local_path(path)
         IN  IF isfile(st.fs, local) THEN [exc |-> "NotADirectoryError", val |-> <<>>]
             ELSE IF ~isdir(st.fs, local) THEN [exc |-> "none", val |-> <<>>]
             ELSE [exc |-> "none",
                   val |-> Listing({name \in listdir(st.fs, local) :
                                      /\ endswith(name, MetaSuffix)
                                      /\ (dist_name = None
                                          \/ startswith(name, dist_name \o <<"-">>))},
                                   st.rev)]

(***************************************************************************)
(* MountAdapter and DirAdapter.                                            *)
(***************************************************************************)
LibLayout == << <<>>, <<"/">>, <<".frozen">>, <<"/", "lib">> >>
FlashLayout == << <<>>, <<"/", "flash">>, <<"/", "flash", "/", "lib">> >>

is_circuitpython(f) == isfile(f, normpath(BasePath \o <<"/", "boot_out.txt">>))

get_sys_path(k, f) ==
    IF k = "dir" THEN << <<"/">> >>
    ELSE IF isdir(f, normpath(BasePath \o <<"/", "lib">>)) \/ is_circuitpython(f)
         THEN LibLayout
         ELSE IF isdir(f, normpath(BasePath \o <<"/", "flash">>))
              THEN FlashLayout
              ELSE LibLayout

get_user_packages_path == None

\* get_default_target: [exc, val]
get_default_target(k, f) ==
    IF k = "dir" THEN [exc |-> "none", val |-> <<"/">>]
    ELSE LET sp == get_sys_path(k, f)
             hits == {i \in 1..Len(sp) : contains(sp[i], "lib")}
         IN  IF hits = {} THEN [exc |-> "AssertionError", val |-> None]
             ELSE [exc |-> "none",
                   val |-> sp[CHOOSE i \in hits : \A j \in hits : i <= j]]

\* MountAdapter.__init__ without the check that the mount point exists
MountAdapter_init_unchecked(st, base_path) ==
    IF isfile(st.fs, normpath(base_path)) THEN Raise(st, "UserError") ELSE st

\* MountAdapter.__init__
MountAdapter_init(st, base_path) ==
    IF ~exists(st.fs, normpath(base_path)) THEN Raise(st, "UserError")
    ELSE IF isfile(st.fs, normpath(base_path)) THEN Raise(st, "UserError")
    ELSE st

\* DirAdapter.__init__; os.makedirs creates the missing ancestors too
DirAdapter_init(st, base_path) ==
    IF isdir(st.fs, normpath(base_path)) THEN st
    ELSE IF exists(st.fs, normpath(base_path)) THEN Raise(st, "AssertionError")
    ELSE IF \E a \in Prefixes(normpath(base_path)) : isfile(st.fs, a)
         THEN Raise(st, "NotADirectoryError")
         ELSE [st EXCEPT !.fs.dirs = @ \cup Prefixes(normpath(base_path))]

create_adapter(st, mount, dir) ==
    IF Truthy(dir) THEN DirAdapter_init(st, dir)
    ELSE IF Truthy(mount) THEN MountAdapter_init(st, mount)
    ELSE Raise(st, "NotImplementedError")

(***************************************************************************)
(* BaseAdapter: listing and removing distributions.                        *)
(***************************************************************************)
\* list_dists with "if dist_name not in result" left out: the last path wins
RECURSIVE list_dists_names_last_wins(_, _, _)
list_dists_names_last_wins(names, path, result) ==
    IF names = <<>> \/ result.exc # "none" THEN result
    ELSE IF ~parse_ok(Head(names))
         THEN [result EXCEPT !.exc = "ValueError"]
         ELSE list_dists_names_last_wins(
                  Tail(names), path,
                  [result EXCEPT !.val = With(Without(@, parse_meta_dir_name(Head(names))[1]),
                                              parse_meta_dir_name(Head(names))[1],
                                              <<Head(names), path>>)])

\* the loop of list_dists over the names found in one path
RECURSIVE list_dists_names(_, _, _)
list_dists_names(names, path, result) ==
    IF names = <<>> \/ result.exc # "none" THEN result
    ELSE IF ~parse_ok(Head(names))
         THEN [result EXCEPT !.exc = "ValueError"]
         ELSE LET dist_name == parse_meta_dir_name(Head(names))[1]
              IN  list_dists_names(
                      Tail(names), path,
                      IF dist_name \in DOMAIN result.val THEN result
                      ELSE [result EXCEPT
                                !.val = With(@, dist_name, <<Head(names), path>>)])

\* the loop of list_dists over the paths
RECURSIVE list_dists_paths(_, _, _)
list_dists_paths(st, paths, result) ==
    IF paths = <<>> \/ result.exc # "none" THEN result
    ELSE LET listed == list_meta_dir_names(st, Head(paths), None)
         IN  IF listed.exc # "none" THEN [result EXCEPT !.exc = listed.exc]
             ELSE list_dists_paths(st, Tail(paths),
                                   list_dists_names(listed.val, Head(paths), result))

AbsoluteEntries(sp) == SelectSeq(sp, LAMBDA entry : startswith(entry, <<"/">>))

\* list_dists: [exc, val], val maps each distribution name to <<meta dir name, path>>
list_dists(k, st, paths) ==
    list_dists_paths(st,
                     IF paths = <<>> THEN AbsoluteEntries(get_sys_path(k, st.fs)) ELSE paths,
                     [exc |-> "none", val |-> <<>>])

\* the loop with ">=" for ">": the containing directory becomes a candidate too
RECURSIVE package_dirs_of_inclusive(_, _)
package_dirs_of_inclusive(abs_dir, containing_dir) ==
    IF StrLen(abs_dir) >= StrLen(containing_dir) /\ contains(abs_dir, "/")
    THEN {abs_dir} \cup package_dirs_of_inclusive(split_dir_and_basename(abs_dir)[1],
                                                  containing_dir)
    ELSE {}

\* the while loop of remove_dist_by_meta_dir: the directories between abs_dir and
\* containing_dir
RECURSIVE package_dirs_of(_, _)
package_dirs_of(abs_dir, containing_dir) ==
    IF StrLen(abs_dir) > StrLen(containing_dir) /\ contains(abs_dir, "/")
    THEN {abs_dir} \cup package_dirs_of(split_dir_and_basename(abs_dir)[1], containing_dir)
    ELSE {}

\* the first loop of remove_dist_by_meta_dir: [st, dirs]
RECURSIVE remove_record_lines(_, _, _, _)
remove_record_lines(st, lines, containing_dir, dirs) ==
    IF lines = <<>> \/ st.exc # "none" THEN [st |-> st, dirs |-> dirs]
    ELSE IF Len(Split(Head(lines), ",")) # 3
         THEN [st |-> Raise(st, "ValueError"), dirs |-> dirs]
         ELSE LET rel_path == Split(Head(lines), ",")[1]
                  abs_path == join_path(<<containing_dir, rel_path>>)
              IN  remove_record_lines(
                      remove_file(st, abs_path), Tail(lines), containing_dir,
                      dirs \cup package_dirs_of(split_dir_and_basename(abs_path)[1],
                                                containing_dir))

\* the second loop of remove_dist_by_meta_dir
RECURSIVE remove_dirs(_, _)
remove_dirs(st, dirs) ==
    IF dirs = <<>> THEN st
    ELSE remove_dirs(remove_dir_if_empty(st, Head(dirs)), Tail(dirs))

PruneOrder(package_dirs) == Reverse(Sorted(package_dirs))

\* remove_dist_by_meta_dir after its first loop, done = [st, dirs]
remove_package_dirs(done) ==
    IF done.st.exc # "none" THEN done.st
    ELSE remove_dirs(done.st, PruneOrder(done.dirs))

\* remove_dist_by_meta_dir once RECORD is read, record = [exc, val]
remove_dist_by_record(st, containing_dir, record) ==
    IF record.exc # "none" THEN Raise(st, record.exc)
    ELSE remove_package_dirs(remove_record_lines(st, record.val, containing_dir, {}))

remove_dist_by_meta_dir(st, containing_dir, meta_dir_name) ==
    IF st.exc # "none" THEN st
    ELSE remove_dist_by_record(
             st, containing_dir,
             read_file(st.fs, join_path(<<containing_dir, meta_dir_name, <<"RECORD">> >>)))

\* the loop of check_remove_dist_from_path
RECURSIVE remove_meta_dirs(_, _, _)
remove_meta_dirs(st, path, meta_dirs) ==
    IF meta_dirs = <<>> THEN st
    ELSE remove_meta_dirs(remove_dist_by_meta_dir(st, path, Head(meta_dirs)),
                          path, Tail(meta_dirs))

\* check_remove_dist_from_path: [st, result]
\* check_remove_dist_from_path once the meta dirs are listed, meta_dirs = [exc, val]
remove_listed_meta_dirs(st, path, meta_dirs) ==
    IF meta_dirs.exc # "none"
    THEN [st |-> Raise(st, meta_dirs.exc), result |-> FALSE]
    ELSE [st |-> remove_meta_dirs(st, path, meta_dirs.val),
          result |-> meta_dirs.val # <<>>]

check_remove_dist_from_path(st, dist_name, path) ==
    IF st.exc # "none" THEN [st |-> st, result |-> FALSE]
    ELSE remove_listed_meta_dirs(st, path, list_meta_dir_names(st, path, dist_name))

\* remove_dist, the loop over the entries above the target: [st, result]
RECURSIVE remove_above(_, _, _, _, _)
\* one turn of that loop, c the outcome of check_remove_dist_from_path for the entry
remove_above_rest(c, dist_name, target, entries, could_remove) ==
    remove_above(c.st, dist_name, target, Tail(entries), could_remove \/ c.result)

remove_above(r, dist_name, target, entries, could_remove) ==
    IF entries = <<>> \/ r.exc # "none" THEN [st |-> r, result |-> could_remove]
    ELSE IF Head(entries) = <<>>
         THEN remove_above(r, dist_name, target, Tail(entries), could_remove)
         ELSE IF Head(entries) = target THEN [st |-> r, result |-> could_remove]
              ELSE remove_above_rest(
                       check_remove_dist_from_path(r, dist_name, Head(entries)),
                       dist_name, target, entries, could_remove)

\* remove_dist, the loop that removes the first visible occurrence: [st, result]
RECURSIVE remove_first(_, _, _)
\* one turn of that loop, c the outcome of check_remove_dist_from_path for the entry
remove_first_rest(c, dist_name, entries) ==
    IF c.result THEN c
    ELSE remove_first(c.st, dist_name, Tail(entries))

remove_first(r, dist_name, entries) ==
    IF entries = <<>> \/ r.exc # "none" THEN [st |-> r, result |-> FALSE]
    ELSE IF ~startswith(Head(entries), <<"/">>)
         THEN remove_first(r, dist_name, Tail(entries))
         ELSE remove_first_rest(check_remove_dist_from_path(r, dist_name, Head(entries)),
                                dist_name, entries)

Warn(c) ==
    IF c.st.exc = "none" /\ ~c.result
    THEN [c.st EXCEPT !.warnings = @ + 1]
    ELSE c.st

\* remove_dist with a target, after the target itself is dealt with: c is the outcome
\* of check_remove_dist_from_path for the target, sp the search path read after it
remove_dist_above(c, sp, dist_name, target, above_target) ==
    IF above_target /\ c.st.exc = "none" /\ \E i \in 1..Len(sp) : sp[i] = target
    THEN Warn(remove_above(c.st, dist_name, target, sp, c.result))
    ELSE Warn(c)

\* remove_dist with a target
remove_dist_target(k, c, dist_name, target, above_target) ==
    remove_dist_above(c, get_sys_path(k, c.st.fs), dist_name, target, above_target)

remove_dist(k, st, dist_name, target, above_target) ==
    IF st.exc # "none" THEN st
    ELSE IF Truthy(target)
         THEN remove_dist_target(k,
                                 check_remove_dist_from_path(
                                     Call(st, "remove_dist", dist_name), dist_name, target),
                                 dist_name, target, above_target)
         ELSE Warn(remove_first(Call(st, "remove_dist", dist_name), dist_name,
                                get_sys_path(k, st.fs)))

(***************************************************************************)
(* The sandbox.  venv.files maps each file of site-packages, by its path   *)
(* relative to site-packages, to [content, mtime].                         *)
(***************************************************************************)
INITIAL_VENV_DISTS == {<<"pip">>, <<"setuptools">>, <<"pkg_resources">>, <<"wheel">>}
INITIAL_VENV_FILES == {<<"easy_install", ".py">>}

MetaDirName(name, version) == name \o <<"-">> \o version \o MetaSuffix
InMeta(meta_dir_name, file) == meta_dir_name \o <<"/", file>>

\* The distributions the host package manager can install: name, version and the
\* relative paths of its manifest; a path starting ".." is a script installed outside
\* site-packages
Catalogue ==
    LET dist(name, version, payload) ==
            [name |-> name, version |-> version,
             paths |-> payload \cup {InMeta(MetaDirName(name, version), f) :
                                       f \in {"INSTALLER", "METADATA", "RECORD"}}]
    IN  {dist(<<"foo">>, <<"1.0">>, {<<"foo", "/", "a", ".py">>,
                                       <<"foo", "/", "bin", "/", "a", ".py">>}),
         dist(<<"foo">>, <<"2.0">>, {<<"foo", "/", "a", ".py">>,
                                       <<"foo", "/", "bin", "/", "a", ".py">>}),
         dist(<<"bar">>, <<"1.0">>, {<<"bar", ".py">>, <<"..", "/", "..", "/", "bin", "/", "bar">>})}

MetaOf(d) == MetaDirName(d.name, d.version)

\* a line of a RECORD file: "path,hash,size"; the RECORD's own line and a stub's lines
\* carry neither hash nor size
RecordLine(path, blank) == IF blank THEN path \o <<",", ",">> ELSE path \o <<",", "h", ",", "n">>

\* what pip writes for distribution d: RECORD with the rows sorted, every other file
\* with content that tells the distribution
RecordOf(d) ==
    LET rows == Sorted(d.paths)
    IN  [i \in 1..Len(rows) |->
            RecordLine(rows[i], rows[i] = InMeta(MetaOf(d), "RECORD"))]

ContentOf(d, path) ==
    IF path = InMeta(MetaOf(d), "RECORD") THEN RecordOf(d)
    ELSE << d.name \o <<"-">> \o d.version >>

TopName(path) == Split(path, "/")[1]
TopNames(v) == {TopName(path) : path \in DOMAIN v.files}

\* os.path.normpath(os.path.join(site-packages, rel_path)), relative to site-packages
\* os.path.normpath(os.path.join(site_packages, rel_path)), told relative to
\* site-packages: a ".." that has nothing left to take away stays
RECURSIVE RelSegs(_, _)
RelSegs(segs, acc) ==
    IF segs = <<>> THEN acc
    ELSE LET s == Head(segs)
         IN  IF s = <<>> THEN RelSegs(Tail(segs), acc)
             ELSE IF s = <<"..">> /\ acc # <<>> /\ acc[Len(acc)] # <<"..">>
                  THEN RelSegs(Tail(segs), SubSeq(acc, 1, Len(acc) - 1))
                  ELSE RelSegs(Tail(segs), Append(acc, s))

NormRel(rel_path) == Join(RelSegs(Split(rel_path, "/"), <<>>), "/")

_is_initial_venv_item(name) ==
    \/ name \in INITIAL_VENV_FILES
    \/ name \in INITIAL_VENV_DISTS
    \/ endswith(name, MetaSuffix) /\ Split(name, "-")[1] \in INITIAL_VENV_DISTS

\* _clear_venv with os.remove alone: the directories are passed over
_clear_venv_files_only(v) ==
    [v EXCEPT !.files = [path \in {q \in DOMAIN v.files :
                                     \/ _is_initial_venv_item(TopName(q))
                                     \/ contains(q, "/")}
                            |-> v.files[path]]]

_clear_venv(v) ==
    [v EXCEPT !.files = [path \in {q \in DOMAIN v.files : _is_initial_venv_item(TopName(q))}
                            |-> v.files[path]]]

\* _get_venv_state without the test of _is_initial_venv_item
_get_venv_state_unfiltered(v) ==
    IF \E name \in {n \in TopNames(v) : endswith(n, MetaSuffix)} :
           InMeta(name, "METADATA") \notin DOMAIN v.files
    THEN [exc |-> "AssertionError", val |-> <<>>]
    ELSE [exc |-> "none",
          val |-> [name \in {n \in TopNames(v) : endswith(n, MetaSuffix)} |->
                      v.files[InMeta(name, "METADATA")].mtime]]

\* _get_venv_state: [exc, val], val maps each meta dir name to METADATA's mtime
_get_venv_state(v) ==
    LET items == {name \in TopNames(v) :
                    ~_is_initial_venv_item(name) /\ endswith(name, MetaSuffix)}
    IN  IF \E name \in items : InMeta(name, "METADATA") \notin DOMAIN v.files
        THEN [exc |-> "AssertionError", val |-> <<>>]
        ELSE [exc |-> "none",
              val |-> [name \in items |-> v.files[InMeta(name, "METADATA")].mtime]]

\* _prepare_dummy_dist with a dummy RECORD that names METADATA alone
_prepare_dummy_dist_short_record(k, f, v, meta_dir_name, original_path, now) ==
    LET metadata == read_file(f, join_path(<<original_path, meta_dir_name, <<"METADATA">> >>))
    IN  IF meta_dir_name \in TopNames(v) THEN [exc |-> "FileExistsError", venv |-> v]
        ELSE IF metadata.exc # "none" THEN [exc |-> metadata.exc, venv |-> v]
        ELSE [exc |-> "none",
              venv |-> [v EXCEPT !.files =
                  With(With(With(@,
                      InMeta(meta_dir_name, "METADATA"),
                      [content |-> metadata.val, mtime |-> now]),
                      InMeta(meta_dir_name, "INSTALLER"),
                      [content |-> << <<"pip">> >>, mtime |-> now]),
                      InMeta(meta_dir_name, "RECORD"),
                      [content |-> <<RecordLine(InMeta(meta_dir_name, "METADATA"), TRUE)>>,
                       mtime |-> now])]]

\* _prepare_dummy_dist: [exc, venv]
_prepare_dummy_dist(k, f, v, meta_dir_name, original_path, now) ==
    LET metadata == read_file(f, join_path(<<original_path, meta_dir_name, <<"METADATA">> >>))
        stub(content) == [content |-> content, mtime |-> now]
    IN  IF meta_dir_name \in TopNames(v) THEN [exc |-> "FileExistsError", venv |-> v]
        ELSE IF metadata.exc # "none" THEN [exc |-> metadata.exc, venv |-> v]
        ELSE [exc |-> "none",
              venv |-> [v EXCEPT !.files =
                  With(With(With(@,
                      InMeta(meta_dir_name, "METADATA"), stub(metadata.val)),
                      InMeta(meta_dir_name, "INSTALLER"), stub(<< <<"pip">> >>)),
                      InMeta(meta_dir_name, "RECORD"),
                      stub(<<RecordLine(InMeta(meta_dir_name, "METADATA"), TRUE),
                             RecordLine(InMeta(meta_dir_name, "INSTALLER"), TRUE),
                             RecordLine(InMeta(meta_dir_name, "RECORD"), TRUE)>>))]]

\* the loop of _populate_venv over the listed distributions: [exc, venv]
RECURSIVE prepare_dummy_dists(_, _, _, _, _, _)
prepare_dummy_dists(k, f, r, dist_infos, names, now) ==
    IF names = <<>> \/ r.exc # "none" THEN r
    ELSE prepare_dummy_dists(
             k, f,
             _prepare_dummy_dist(k, f, r.venv, dist_infos[Head(names)][1],
                                 dist_infos[Head(names)][2], now),
             dist_infos, Tail(names), now)

\* _populate_venv: [exc, venv]; paths <<>> stands for None
\* _populate_venv once the sandbox is cleared and the target listed: cleared is the
\* sandbox, dist_infos = [exc, val] what list_dists gave
populate_cleared(k, f, cleared, dist_infos, now) ==
    IF dist_infos.exc # "none"
    THEN [exc |-> dist_infos.exc, venv |-> cleared]
    ELSE prepare_dummy_dists(k, f, [exc |-> "none", venv |-> cleared],
                             dist_infos.val, Sorted(DOMAIN dist_infos.val), now)

_populate_venv(k, st, v, paths, user, now) ==
    IF paths # <<>> /\ user THEN [exc |-> "AssertionError", venv |-> v]
    ELSE populate_cleared(
             k, st.fs, _clear_venv(v),
             list_dists(k, st, IF user THEN <<get_user_packages_path>> ELSE paths), now)

(***************************************************************************)
(* The host package manager, run as a subprocess on the sandbox.  What it  *)
(* does is its own choice: pip = [exit, dists] gives how it ends ("ok",    *)
(* "fail": non-zero exit, "interrupt": KeyboardInterrupt while it runs)    *)
(* and the distributions it installs (install) or removes (uninstall)      *)
(* before it ends.                                                         *)
(***************************************************************************)
PresentMetas(v, name) ==
    {m \in TopNames(v) : parse_ok(m) /\ parse_meta_dir_name(m)[1] = name}

\* pip removes the files the distribution's RECORD in the sandbox names
PipUninstallMeta(v, meta) ==
    IF InMeta(meta, "RECORD") \notin DOMAIN v.files THEN v
    ELSE LET rec == v.files[InMeta(meta, "RECORD")].content
             owned == {NormRel(Split(rec[i], ",")[1]) : i \in 1..Len(rec)}
         IN  [v EXCEPT !.files = [path \in (DOMAIN v.files) \ owned |-> v.files[path]]]

RECURSIVE PipUninstallMetas(_, _)
PipUninstallMetas(v, metas) ==
    IF metas = {} THEN v
    ELSE LET m == CHOOSE x \in metas : TRUE
         IN  PipUninstallMetas(PipUninstallMeta(v, m), metas \ {m})

\* pip installs d, uninstalling first whatever version of it the sandbox holds
PipInstallDist(v, d, now) ==
    LET v1 == PipUninstallMetas(v, PresentMetas(v, d.name))
        inside == {path \in d.paths : ~startswith(path, <<"..">>)}
    IN  [v1 EXCEPT !.files =
            [path \in (DOMAIN v1.files) \cup inside |->
                IF path \in inside
                THEN [content |-> ContentOf(d, path), mtime |-> now]
                ELSE v1.files[path]]]

RECURSIVE PipInstallDists(_, _, _)
PipInstallDists(v, dists, now) ==
    IF dists = {} THEN v
    ELSE LET d == CHOOSE x \in dists : TRUE
         IN  PipInstallDists(PipInstallDist(v, d, now), dists \ {d}, now)

PipExc(pip) ==
    IF pip.exit = "ok" THEN "none"
    ELSE IF pip.exit = "fail" THEN "CalledProcessError" ELSE "KeyboardInterrupt"

(***************************************************************************)
(* Session.  A run of an operation is the record                           *)
(*   [st, venv, stage, before, after, removed, new, changed, target,       *)
(*    proxies, peak, started]                                              *)
(* st the world, venv the sandbox, stage the last step entered, proxies    *)
(* the index proxies running, peak the most that ran at once during the    *)
(* run and started how many the run started.                               *)
(***************************************************************************)
NewRun(f, v, rev) ==
    [st |-> World(f, rev), venv |-> v, stage |-> "start",
     before |-> <<>>, after |-> <<>>, removed |-> {}, new |-> {}, changed |-> {},
     target |-> None, proxies |-> proxies, peak |-> proxies, started |-> 0]

Ok(r) == r.st.exc = "none"
Fail(r, e) == [r EXCEPT !.st = Raise(@, e)]

\* _populate_venv() and the snapshot before
Populated(r, pop) ==
    IF pop.exc # "none"
    THEN Fail([r EXCEPT !.venv = pop.venv, !.stage = "populate"], pop.exc)
    ELSE [r EXCEPT !.venv = pop.venv, !.stage = "populate"]

StepPopulate(k, r, paths, user, now) ==
    Populated(r, _populate_venv(k, r.st, r.venv, paths, user, now))

StepBefore(r) ==
    IF ~Ok(r) THEN r
    ELSE LET s == _get_venv_state(r.venv)
         IN  IF s.exc # "none" THEN Fail(r, s.exc) ELSE [r EXCEPT !.before = s.val]

\* _invoke_pip with subprocess.call for check_call: the exit status is not looked at
StepPipInstall_unchecked(r, pip, now) ==
    IF ~Ok(r) THEN r
    ELSE IF pip.exit = "interrupt"
         THEN Fail([r EXCEPT !.venv = PipInstallDists(@, pip.dists, now), !.stage = "pip"],
                   "KeyboardInterrupt")
         ELSE [r EXCEPT !.venv = PipInstallDists(@, pip.dists, now), !.stage = "pip"]

\* _invoke_pip: subprocess.check_call of pip install
StepPipInstall(r, pip, now) ==
    IF ~Ok(r) THEN r
    ELSE LET r1 == [r EXCEPT !.venv = PipInstallDists(@, pip.dists, now), !.stage = "pip"]
         IN  IF PipExc(pip) # "none" THEN Fail(r1, PipExc(pip)) ELSE r1

\* pipkin.proxy.start_proxy: one more proxy serves on the host
start_proxy(r) ==
    [r EXCEPT !.proxies = @ + 1,
              !.peak = IF r.proxies + 1 > @ THEN r.proxies + 1 ELSE @,
              !.started = @ + 1]

\* proxy.shutdown
shutdown(r) == [r EXCEPT !.proxies = @ - 1]

\* _invoke_pip_with_index_args with the shutdown after the try block, not in a finally
invoke_pip_shutdown_on_success(r, pip, now, no_index, find_links) ==
    IF ~Ok(r) THEN r
    ELSE IF no_index
         THEN IF ~Truthy(find_links) THEN Fail(r, "AssertionError")
              ELSE StepPipInstall(r, pip, now)
         ELSE IF PipExc(pip) = "none" THEN shutdown(StepPipInstall(start_proxy(r), pip, now))
              ELSE StepPipInstall(start_proxy(r), pip, now)

_invoke_pip_with_index_args(r, pip, now, no_index, find_links) ==
    IF ~Ok(r) THEN r
    ELSE IF no_index
         THEN IF ~Truthy(find_links) THEN Fail(r, "AssertionError")
              ELSE StepPipInstall(r, pip, now)
         ELSE shutdown(StepPipInstall(start_proxy(r), pip, now))

\* _invoke_pip: subprocess.check_call of pip uninstall
StepPipUninstall(r, pip) ==
    IF ~Ok(r) THEN r
    ELSE LET r1 == [r EXCEPT !.venv = PipUninstallMetas(@, {MetaOf(d) : d \in pip.dists}),
                             !.stage = "pip"]
         IN  IF PipExc(pip) # "none" THEN Fail(r1, PipExc(pip)) ELSE r1

\* the second snapshot with a clearing of the sandbox before it
StepAfter_cleared(r) ==
    IF ~Ok(r) THEN r
    ELSE IF _get_venv_state(_clear_venv(r.venv)).exc # "none"
         THEN Fail(r, _get_venv_state(_clear_venv(r.venv)).exc)
         ELSE [r EXCEPT !.venv = _clear_venv(@),
                        !.after = _get_venv_state(_clear_venv(r.venv)).val,
                        !.stage = "diff"]

StepAfter(r) ==
    IF ~Ok(r) THEN r
    ELSE LET s == _get_venv_state(r.venv)
         IN  IF s.exc # "none" THEN Fail(r, s.exc)
             ELSE [r EXCEPT !.after = s.val, !.stage = "diff"]

\* the classification of install
removed_meta_dirs(before, after) == {name \in DOMAIN before : name \notin DOMAIN after}
new_meta_dirs(before, after) == {name \in DOMAIN after : name \notin DOMAIN before}

\* changed_meta_dirs, the comprehension without the comparison of the tokens
changed_meta_dirs_any_common(before, after) ==
    {name \in DOMAIN after : name \in DOMAIN before}

changed_meta_dirs(before, after) ==
    {name \in DOMAIN after : name \in DOMAIN before /\ after[name] # before[name]}

\* install without "assert not removed_meta_dirs"
StepDiff_unchecked(r) ==
    IF ~Ok(r) THEN r
    ELSE [r EXCEPT !.removed = removed_meta_dirs(r.before, r.after),
                   !.new = new_meta_dirs(r.before, r.after),
                   !.changed = changed_meta_dirs(r.before, r.after)]

StepDiff(r) ==
    IF ~Ok(r) THEN r
    ELSE LET r1 == [r EXCEPT !.removed = removed_meta_dirs(r.before, r.after)]
         IN  IF r1.removed # {} THEN Fail(r1, "AssertionError")
             ELSE [r1 EXCEPT !.new = new_meta_dirs(r.before, r.after),
                             !.changed = changed_meta_dirs(r.before, r.after)]

\* the effective target with the user location taking precedence over the argument
effective_target_user_first(k, f, target, user) ==
    IF user THEN [exc |-> "none", val |-> get_user_packages_path]
    ELSE IF Truthy(target) THEN [exc |-> "none", val |-> target]
    ELSE get_default_target(k, f)

\* the effective target of install: [exc, val]
effective_target(k, f, target, user) ==
    IF Truthy(target) THEN [exc |-> "none", val |-> target]
    ELSE IF user THEN [exc |-> "none", val |-> get_user_packages_path]
    ELSE get_default_target(k, f)

StepTarget(k, r, target, user) ==
    IF ~Ok(r) THEN r
    ELSE LET t == effective_target(k, r.st.fs, target, user)
         IN  IF t.exc # "none" THEN Fail(r, t.exc)
             ELSE [r EXCEPT !.target = t.val, !.stage = "reconcile"]

\* the loop over the changed distributions with above_target left at its default
RECURSIVE remove_changed_target_only(_, _, _, _, _, _, _)
remove_changed_target_only(k, st, metas, target, user, upgrade, eff) ==
    IF metas = <<>> \/ st.exc # "none" THEN st
    ELSE IF ~parse_ok(Head(metas)) THEN Raise(st, "ValueError")
    ELSE remove_changed_target_only(
             k,
             IF Truthy(target) /\ ~upgrade THEN st
             ELSE remove_dist(k, st, parse_meta_dir_name(Head(metas))[1],
                              IF Truthy(target) THEN target
                              ELSE IF user THEN get_user_packages_path ELSE eff,
                              FALSE),
             Tail(metas), target, user, upgrade, eff)

\* the loop of install over the changed distributions
RECURSIVE remove_changed(_, _, _, _, _, _, _)
remove_changed(k, st, metas, target, user, upgrade, eff) ==
    IF metas = <<>> \/ st.exc # "none" THEN st
    ELSE IF ~parse_ok(Head(metas)) THEN Raise(st, "ValueError")
    ELSE LET dist_name == parse_meta_dir_name(Head(metas))[1]
             st1 == IF Truthy(target)
                    THEN IF upgrade THEN remove_dist(k, st, dist_name, target, FALSE)
                         ELSE st
                    ELSE IF user
                         THEN remove_dist(k, st, dist_name, get_user_packages_path, FALSE)
                         ELSE remove_dist(k, st, dist_name, eff, TRUE)
         IN  remove_changed(k, st1, Tail(metas), target, user, upgrade, eff)

\* the removal loop run over every meta directory found before and after
StepRemoveChanged_all_common(k, r, target, user, upgrade) ==
    IF ~Ok(r) THEN r
    ELSE [r EXCEPT !.st = remove_changed(k, @,
                                         Listing((DOMAIN r.before) \cap (DOMAIN r.after),
                                                 r.st.rev),
                                         target, user, upgrade, r.target)]

StepRemoveChanged(k, r, target, user, upgrade) ==
    IF ~Ok(r) THEN r
    ELSE [r EXCEPT !.st = remove_changed(k, @, Listing(r.changed, r.st.rev),
                                         target, user, upgrade, r.target)]

\* the loop over the lines of RECORD that passes over a file whose directory is not
\* among ensured_dirs instead of creating the directory
RECURSIVE upload_lines_ensured_only(_, _, _, _, _)
upload_lines_ensured_only(st, v, lines, target, ensured_dirs) ==
    IF lines = <<>> \/ st.exc # "none" THEN st
    ELSE LET rel_path == Split(Head(lines), ",")[1]
             full_path == NormRel(rel_path)
             full_device_path == join_path(<<target, rel_path>>)
             device_dir_name == split_dir_and_basename(full_device_path)[1]
         IN  IF startswith(rel_path, <<"..">>) \/ device_dir_name \notin ensured_dirs
             THEN upload_lines_ensured_only(st, v, Tail(lines), target, ensured_dirs)
             ELSE IF full_path \notin DOMAIN v.files THEN Raise(st, "FileNotFoundError")
             ELSE upload_lines_ensured_only(
                      write_file(st, full_device_path, v.files[full_path].content),
                      v, Tail(lines), target, ensured_dirs)

\* the loop over the lines of RECORD with an assertion in place of the "continue"
RECURSIVE upload_lines_strict(_, _, _, _, _)
upload_lines_strict(st, v, lines, target, ensured_dirs) ==
    IF lines = <<>> \/ st.exc # "none" THEN st
    ELSE LET rel_path == Split(Head(lines), ",")[1]
             full_path == NormRel(rel_path)
             full_device_path == join_path(<<target, rel_path>>)
             device_dir_name == split_dir_and_basename(full_device_path)[1]
             st1 == IF device_dir_name \in ensured_dirs THEN st
                    ELSE create_dir_if_doesnt_exist(st, device_dir_name)
         IN  IF startswith(rel_path, <<"..">>) THEN Raise(st, "AssertionError")
             ELSE IF st1.exc # "none" THEN st1
             ELSE IF full_path \notin DOMAIN v.files THEN Raise(st1, "FileNotFoundError")
             ELSE upload_lines_strict(
                      write_file(st1, full_device_path, v.files[full_path].content),
                      v, Tail(lines), target, ensured_dirs \cup {device_dir_name})

\* the loop of _upload_dist_by_meta_dir over the lines of RECORD
RECURSIVE upload_lines(_, _, _, _, _)
upload_lines(st, v, lines, target, ensured_dirs) ==
    IF lines = <<>> \/ st.exc # "none" THEN st
    ELSE LET rel_path == Split(Head(lines), ",")[1]
             full_path == NormRel(rel_path)
             full_device_path == join_path(<<target, rel_path>>)
             device_dir_name == split_dir_and_basename(full_device_path)[1]
             st1 == IF device_dir_name \in ensured_dirs THEN st
                    ELSE create_dir_if_doesnt_exist(st, device_dir_name)
         IN  IF startswith(rel_path, <<"..">>)
             THEN upload_lines(st, v, Tail(lines), target, ensured_dirs)
             ELSE IF st1.exc # "none" THEN st1
             ELSE IF full_path \notin DOMAIN v.files THEN Raise(st1, "FileNotFoundError")
             ELSE upload_lines(write_file(st1, full_device_path, v.files[full_path].content),
                               v, Tail(lines), target, ensured_dirs \cup {device_dir_name})

_upload_dist_by_meta_dir(st, v, meta_dir_name, target) ==
    IF st.exc # "none" THEN st
    ELSE IF InMeta(meta_dir_name, "RECORD") \notin DOMAIN v.files
         THEN Raise(st, "AssertionError")
         ELSE upload_lines(st, v, v.files[InMeta(meta_dir_name, "RECORD")].content,
                           target, {target})

RECURSIVE upload_dists(_, _, _, _)
upload_dists(st, v, metas, target) ==
    IF metas = <<>> THEN st
    ELSE upload_dists(_upload_dist_by_meta_dir(st, v, Head(metas), target),
                      v, Tail(metas), target)

\* the end of install, st2 the world after the upload loop
Uploaded(r, st2) ==
    [r EXCEPT !.st = st2, !.stage = IF st2.exc = "none" THEN "done" ELSE "reconcile"]

\* the upload loop over changed_meta_dirs alone
StepUpload_changed_only(r) ==
    IF ~Ok(r) THEN r
    ELSE Uploaded(r, upload_dists(create_dir_if_doesnt_exist(r.st, r.target), r.venv,
                                  Listing(r.changed, r.st.rev), r.target))

StepUpload(r) ==
    IF ~Ok(r) THEN r
    ELSE Uploaded(r, upload_dists(create_dir_if_doesnt_exist(r.st, r.target), r.venv,
                                  Listing(r.new \cup r.changed, r.st.rev), r.target))

\* install with the first snapshot taken before _populate_venv
install_snapshot_first(k, f, v, now, target, user, upgrade, pip, rev, no_index, find_links) ==
    StepUpload(
     StepRemoveChanged(k,
      StepTarget(k,
       StepDiff(
        StepAfter(
         _invoke_pip_with_index_args(
          StepPopulate(k, StepBefore(NewRun(f, v, rev)), <<>>, FALSE, now),
          pip, now + 1, no_index, find_links))),
       target, user),
      target, user, upgrade))

\* Session.install
install(k, f, v, now, target, user, upgrade, pip, rev, no_index, find_links) ==
    StepUpload(
     StepRemoveChanged(k,
      StepTarget(k,
       StepDiff(
        StepAfter(
         _invoke_pip_with_index_args(
          StepBefore(
           StepPopulate(k, NewRun(f, v, rev), <<>>, FALSE, now)),
          pip, now + 1, no_index, find_links))),
       target, user),
      target, user, upgrade))

\* the loop of uninstall over the removed distributions
RECURSIVE remove_removed(_, _, _)
remove_removed(k, st, metas) ==
    IF metas = <<>> \/ st.exc # "none" THEN st
    ELSE IF ~parse_ok(Head(metas)) THEN Raise(st, "ValueError")
    ELSE remove_removed(k, remove_dist(k, st, parse_meta_dir_name(Head(metas))[1],
                                       None, FALSE),
                        Tail(metas))

\* the end of uninstall, st1 the world after the loop
Reconciled(r, removed, st1) ==
    [r EXCEPT !.removed = removed, !.st = st1,
              !.stage = IF st1.exc = "none" THEN "done" ELSE "reconcile"]

\* the loop of uninstall run over every meta directory of the first snapshot
StepRemoveRemoved_all_before(k, r) ==
    IF ~Ok(r) THEN r
    ELSE Reconciled(r, removed_meta_dirs(r.before, r.after),
                    remove_removed(k, r.st, Listing(DOMAIN r.before, r.st.rev)))

StepRemoveRemoved(k, r) ==
    IF ~Ok(r) THEN r
    ELSE Reconciled(r, removed_meta_dirs(r.before, r.after),
                    remove_removed(k, r.st,
                                   Listing(removed_meta_dirs(r.before, r.after), r.st.rev)))

\* Session.uninstall
uninstall(k, f, v, now, pip, rev) ==
    StepRemoveRemoved(k,
     StepAfter(
      StepPipUninstall(
       StepBefore(
        StepPopulate(k, NewRun(f, v, rev), <<>>, FALSE, now)),
       pip)))

\* list with the reconciliation of install after pip's run
list_reconciling(k, f, v, now, paths, user, pip, rev, no_index, find_links) ==
    StepUpload(
     StepTarget(k,
      StepDiff(
       StepAfter(
        _invoke_pip_with_index_args(
         StepBefore(StepPopulate(k, NewRun(f, v, rev), paths, user, now)),
         pip, now + 1, no_index, find_links))),
      None, FALSE))

\* Session.list; what the subprocess does in the sandbox is pip's choice, as in install
list(k, f, v, now, paths, user, pip, rev, no_index, find_links) ==
    _invoke_pip_with_index_args(StepPopulate(k, NewRun(f, v, rev), paths, user, now),
                                pip, now + 1, no_index, find_links)

\* Session.show
show(k, f, v, now, pip, rev) ==
    StepPipInstall(StepPopulate(k, NewRun(f, v, rev), <<>>, FALSE, now), pip, now + 1)

\* Session.freeze
freeze(k, f, v, now, paths, user, pip, rev) ==
    StepPipInstall(StepPopulate(k, NewRun(f, v, rev), paths, user, now), pip, now + 1)

\* Session.check
check(k, f, v, now, pip, rev) ==
    StepPipInstall(StepPopulate(k, NewRun(f, v, rev), <<>>, FALSE, now), pip, now + 1)

\* Session.download
download(k, f, v, now, pip, rev, no_index, find_links) ==
    _invoke_pip_with_index_args(StepPopulate(k, NewRun(f, v, rev), <<>>, FALSE, now),
                                pip, now + 1, no_index, find_links)

\* Session.wheel
wheel(k, f, v, now, pip, rev, no_index, find_links) ==
    _invoke_pip_with_index_args(StepPopulate(k, NewRun(f, v, rev), <<>>, FALSE, now),
                                pip, now + 1, no_index, find_links)

(***************************************************************************)
(* The state machine of one Session on one target.                         *)
(***************************************************************************)
\* the sandbox as _prepare_venv leaves it: pip and its dist-info
InitialVenv ==
    [files |-> [path \in {<<"pip", "/", "a", ".py">>,
                          InMeta(MetaDirName(<<"pip">>, <<"1.0">>), "METADATA")}
                  |-> [content |-> << <<"pip">> >>, mtime |-> 0]]]

EmptyFs == [files |-> <<>>, dirs |-> Prefixes(normpath(BasePath))]

\* a distribution as an installer leaves it at location loc of the target
Provision(f, loc, d) ==
    LET v == PipInstallDist([files |-> <<>>], d, 0)
    IN  _upload_dist_by_meta_dir(create_dir_if_doesnt_exist(World(f, FALSE), loc),
                                 v, MetaOf(d), loc).fs

RECURSIVE ProvisionAll(_, _)
ProvisionAll(f, slots) ==
    IF slots = {} THEN f
    ELSE LET s == CHOOSE x \in slots : TRUE
         IN  ProvisionAll(Provision(f, s[1], s[2]), slots \ {s})

\* the targets a run can start from: the layout of the device, the distributions
\* already installed on it and a file of the user's inside a package directory
Layouts == {"dir", "lib", "flash"}
LayoutFs(layout) ==
    IF layout = "lib" THEN [EmptyFs EXCEPT !.dirs = @ \cup {normpath(BasePath \o <<"/", "lib">>)}]
    ELSE IF layout = "flash"
         THEN [EmptyFs EXCEPT !.dirs = @ \cup {normpath(BasePath \o <<"/", "flash">>)}]
         ELSE EmptyFs
LayoutKind(layout) == IF layout = "dir" THEN "dir" ELSE "mount"

Foo1 == CHOOSE d \in Catalogue : d.name = <<"foo">> /\ d.version = <<"1.0">>
Range(q) == {q[i] : i \in 1..Len(q)}
Bar1 == CHOOSE d \in Catalogue : d.name = <<"bar">>
Slots(layout) ==
    {<<e, Foo1>> : e \in Range(AbsoluteEntries(get_sys_path(LayoutKind(layout),
                                                             LayoutFs(layout))))}
    \cup {<<get_default_target(LayoutKind(layout), LayoutFs(layout)).val, Bar1>>}

UserFile(f, loc) ==
    LET dir == convert_to_local_path(loc \o <<"/", "foo">>)
    IN  [f EXCEPT !.dirs = @ \cup Prefixes(dir),
                  !.files = With(@, Append(dir, <<"x">>), << <<"x">> >>)]

\* a file of the host outside the mirrored tree, where the host package manager
\* puts the script of a distribution
HostScript(f) ==
    [f EXCEPT !.dirs = @ \cup {<< <<"bin">> >>},
              !.files = With(@, << <<"bin">>, <<"bar">> >>, << <<"x">> >>)]

Extras == {"none", "user file", "host script"}

NoArgs == [name |-> None, target |-> None, user |-> FALSE, upgrade |-> FALSE,
           above |-> FALSE, paths |-> <<>>, pip |-> [exit |-> "ok", dists |-> {}],
           no_index |-> FALSE, find_links |-> None, mount |-> None, dir |-> None,
           path |-> None, content |-> <<>>]

\* what is kept of the latest Session operation: whether it completed, what it
\* classified, where it uploaded to and whether that is an entry of the search path
NoSession == [op |-> "none", done |-> FALSE, new |-> {}, changed |-> {}, eff |-> None,
              on_path |-> FALSE]
Summary(op, k, pre, r) ==
    [op |-> op, done |-> r.stage = "done", new |-> r.new, changed |-> r.changed,
     eff |-> r.target,
     on_path |-> \E i \in 1..Len(get_sys_path(k, pre)) : get_sys_path(k, pre)[i] = r.target]

Report(op, args, pre, r, listed, prev) ==
    [op |-> op, args |-> args, pre |-> pre, exc |-> r.st.exc, calls |-> r.st.calls,
     warnings |-> r.st.warnings, stage |-> r.stage, before |-> r.before,
     after |-> r.after, removed |-> r.removed, new |-> r.new, changed |-> r.changed,
     eff |-> r.target, listed |-> listed, prev |-> prev,
     peak |-> r.peak, started |-> r.started, venv0 |-> venv]

InitTarget ==
    /\ \E layout \in Layouts, extra \in Extras : \E pre \in SUBSET Slots(layout) :
         /\ kind = LayoutKind(layout)
         /\ fs = LET f == ProvisionAll(LayoutFs(layout), pre)
                 IN  IF extra = "user file"
                     THEN UserFile(f, get_default_target(LayoutKind(layout), f).val)
                     ELSE IF extra = "host script" THEN HostScript(f) ELSE f
    /\ reversed \in BOOLEAN
    /\ venv = InitialVenv
    /\ clock = 1
    /\ nops = 0
    /\ proxies = 0
    /\ last = Report("none", NoArgs, EmptyFs, NewRun(EmptyFs, InitialVenv, FALSE), <<>>,
                     NoSession)

\* the processes that use the sandboxes, and the sandbox of each: the path that
\* _compute_venv_path derives from the interpreter the process runs on
Procs == {"p1", "p2", "p3"}
Workspaces == {"w1", "w2"}
_compute_venv_path(p) == IF p = "p3" THEN "w2" ELSE "w1"

\* no process has started; the sandboxes may or may not have been created by
\* earlier runs; a lock file of 0 is no lock file; complete tells whether the
\* directory holds the environment with pip and wheel installed
InitLock ==
    /\ pc = [p \in Procs |-> "idle"]
    /\ holders = {}
    /\ exit = [p \in Procs |-> "none"]
    /\ workspaces \in [Workspaces -> {[exists |-> FALSE, lock |-> 0, complete |-> FALSE],
                                      [exists |-> TRUE, lock |-> 0, complete |-> TRUE]}]

\* a Session on its target; its sandbox has been built and no other process is about
Init ==
    /\ InitTarget
    /\ InitLock
    /\ \A w \in Workspaces : workspaces[w].exists

\* what pip may do in one run of install: at most one version of each distribution;
\* a run that fails or is interrupted has installed nothing or one distribution
Foo2 == CHOOSE d \in Catalogue : d.name = <<"foo">> /\ d.version = <<"2.0">>
InstallRuns ==
    {[exit |-> "ok", dists |-> D] :
        D \in {S \in SUBSET Catalogue : \A a, b \in S : a.name = b.name => a = b}}
    \cup {[exit |-> "fail", dists |-> D] : D \in {{}, {Foo2}}}
    \cup {[exit |-> "interrupt", dists |-> D] : D \in {{}, {Foo2}}}

\* what pip may do in one run of uninstall
UninstallRuns ==
    {[exit |-> "ok", dists |-> {d}] : d \in Catalogue}
    \cup {[exit |-> "ok", dists |-> {Foo1, Bar1}]}
    \cup {[exit |-> e, dists |-> D] : e \in {"fail", "interrupt"}, D \in {{}, {Foo1}}}

\* the run r of an operation has ended: the target and the sandbox are as it left them
Finish(op, args, r, prev) ==
    /\ fs' = r.st.fs
    /\ venv' = r.venv
    /\ proxies' = r.proxies
    /\ last' = Report(op, args, fs, r, <<>>, prev)

FinishSession(op, args, r) == Finish(op, args, r, Summary(op, kind, fs, r))

Install(a, pip) ==
    /\ nops < MaxOps
    /\ last.op \notin {"remove_dist", "list_dists", "create_adapter", "write_file",
                     "_upload_dist_by_meta_dir"}
    /\ FinishSession("install",
                     [NoArgs EXCEPT !.target = a.target, !.user = a.user,
                                    !.upgrade = a.upgrade, !.pip = pip,
                                    !.no_index = a.no_index, !.find_links = a.find_links],
                     install(kind, fs, venv, clock, a.target, a.user, a.upgrade, pip,
                             reversed, a.no_index, a.find_links))
    /\ clock' = clock + 2
    /\ nops' = nops + 1
    /\ UNCHANGED <<kind, reversed, lockVars>>

Uninstall(pip) ==
    /\ nops < MaxOps
    /\ last.op \notin {"remove_dist", "list_dists", "create_adapter", "write_file",
                     "_upload_dist_by_meta_dir"}
    /\ FinishSession("uninstall", [NoArgs EXCEPT !.pip = pip],
                     uninstall(kind, fs, venv, clock, pip, reversed))
    /\ clock' = clock + 2
    /\ nops' = nops + 1
    /\ UNCHANGED <<kind, reversed, lockVars>>

\* the operations that only ask pip about the stubs, and what they are called with:
\* paths and user for list and freeze, the index left out or not for list, download
\* and wheel; pip may end in failure and may leave a distribution in the sandbox
QueryOps == {"list", "show", "freeze", "check", "download", "wheel"}
QueryRuns ==
    {[exit |-> "ok", dists |-> {}], [exit |-> "ok", dists |-> {Foo2}],
     [exit |-> "fail", dists |-> {}]}
QueryArgs(op) ==
    {[paths |-> q.paths, user |-> q.user, no_index |-> n, find_links |-> None] :
        q \in IF op \in {"list", "freeze"}
              THEN {[paths |-> <<>>, user |-> FALSE],
                    [paths |-> <<get_default_target(kind, fs).val>>, user |-> FALSE],
                    [paths |-> <<>>, user |-> TRUE],
                    [paths |-> <<get_default_target(kind, fs).val>>, user |-> TRUE]}
              ELSE {[paths |-> <<>>, user |-> FALSE]},
        n \in IF op \in {"list", "download", "wheel"} THEN BOOLEAN ELSE {FALSE}}

Query(op, a, pip) ==
    /\ nops < MaxOps
    /\ last.op \notin {"remove_dist", "list_dists", "create_adapter", "write_file",
                     "_upload_dist_by_meta_dir"}
    /\ FinishSession(
           op,
           [NoArgs EXCEPT !.paths = a.paths, !.user = a.user, !.pip = pip,
                          !.no_index = a.no_index, !.find_links = a.find_links],
           CASE op = "list" ->
                    list(kind, fs, venv, clock, a.paths, a.user, pip, reversed,
                         a.no_index, a.find_links)
             [] op = "show" -> show(kind, fs, venv, clock, pip, reversed)
             [] op = "freeze" ->
                    freeze(kind, fs, venv, clock, a.paths, a.user, pip, reversed)
             [] op = "check" -> check(kind, fs, venv, clock, pip, reversed)
             [] op = "download" ->
                    download(kind, fs, venv, clock, pip, reversed, a.no_index,
                             a.find_links)
             [] op = "wheel" ->
                    wheel(kind, fs, venv, clock, pip, reversed, a.no_index, a.find_links))
    /\ clock' = clock + 2
    /\ nops' = nops + 1
    /\ UNCHANGED <<kind, reversed, lockVars>>

\* the names and the locations the adapter is asked about: the directories of the
\* search path and one outside it
DistNames == {d.name : d \in Catalogue}
Outside == <<"/", "x">>
Targets == Range(AbsoluteEntries(get_sys_path(kind, fs))) \cup {Outside}
RemoveArgs ==
    {[target |-> None, above |-> FALSE]}
    \cup {[target |-> t, above |-> b] : t \in Targets, b \in BOOLEAN}
\* a path that is a file wherever bar is installed in the default target
FileEntry == join_path(<<get_default_target(kind, fs).val, <<"bar", ".py">> >>)
PathLists ==
    {<<>>} \cup {<<a>> : a \in Targets}
           \cup {p \in Targets \X Targets : p[1] # p[2]}
           \cup {<<FileEntry>>, <<get_default_target(kind, fs).val, FileEntry>>}

\* the arguments install is called with: target, user, upgrade and, with the index
\* left out, no_index with or without find_links
Links == <<"/", "x">>
InstallArgs ==
    {[target |-> t.target, user |-> t.user, upgrade |-> t.upgrade,
      no_index |-> FALSE, find_links |-> None] :
        t \in {[target |-> None, user |-> FALSE, upgrade |-> FALSE],
               [target |-> None, user |-> TRUE, upgrade |-> FALSE],
               [target |-> <<"/", "lib">>, user |-> FALSE, upgrade |-> TRUE],
               [target |-> Outside, user |-> FALSE, upgrade |-> FALSE],
               [target |-> <<"/", "lib">>, user |-> TRUE, upgrade |-> FALSE]}}
    \cup {[target |-> None, user |-> FALSE, upgrade |-> FALSE,
           no_index |-> TRUE, find_links |-> l] : l \in {None, Links}}

\* a direct call of the adapter's remove_dist
RemoveDist(name, target, above) ==
    /\ last.op \in {"none", "install", "uninstall"}
    /\ Finish("remove_dist",
              [NoArgs EXCEPT !.name = name, !.target = target, !.above = above],
              [NewRun(fs, venv, reversed) EXCEPT
                  !.st = remove_dist(kind, @, name, target, above)],
              last.prev)
    /\ UNCHANGED <<kind, reversed, clock, nops, lockVars>>

\* the roots another adapter is constructed on: the one in use, a path with nothing
\* at it and the place of the host's script, a file if the host has one
Roots == {BasePath, <<"/", "x">>, <<"/", "bin", "/", "bar">>}
AdapterArgs ==
    {[mount |-> None, dir |-> None]}
    \cup {[mount |-> b, dir |-> None] : b \in Roots}
    \cup {[mount |-> None, dir |-> b] : b \in Roots}

\* the construction of another adapter on the host
CreateAdapter(mount, dir) ==
    /\ last.op \in {"none", "install", "uninstall"}
    /\ Finish("create_adapter", [NoArgs EXCEPT !.mount = mount, !.dir = dir],
              [NewRun(fs, venv, reversed) EXCEPT !.st = create_adapter(@, mount, dir)],
              last.prev)
    /\ UNCHANGED <<kind, reversed, clock, nops, lockVars>>

\* a direct call of the adapter's list_dists
ListDists(paths) ==
    /\ last.op \in {"none", "install", "uninstall"}
    /\ LET r == NewRun(fs, venv, reversed)
           listed == list_dists(kind, r.st, paths)
       IN  last' = Report("list_dists", [NoArgs EXCEPT !.paths = paths], fs,
                          [r EXCEPT !.st.exc = listed.exc], listed.val, last.prev)
    /\ UNCHANGED <<kind, fs, reversed, venv, clock, nops, proxies, lockVars>>

\* the files the adapter is asked to write: one that is there wherever foo is
\* installed in the default target, a new one beside it, one in a directory that is
\* not there, the default target itself and a path that is not absolute
WritePaths ==
    LET t == get_default_target(kind, fs).val
    IN  {join_path(<<t, <<"foo", "/", "a", ".py">> >>),
         join_path(<<t, <<"new", ".py">> >>),
         join_path(<<t, <<"x", "/", "new", ".py">> >>),
         t,
         <<"new", ".py">>}
\* the buffers: empty, one row, a whole block, blocks and a short last block
WriteContents ==
    {SubSeq(RecordOf(Foo1), 1, n) : n \in {0, 1, block_size, Len(RecordOf(Foo1))}}

\* a direct call of the adapter's write_file on the target as the Session found it
WriteFile(path, content) ==
    /\ last.op = "none"
    /\ Finish("write_file", [NoArgs EXCEPT !.path = path, !.content = content],
              [NewRun(fs, venv, reversed) EXCEPT !.st = write_file(@, path, content)],
              last.prev)
    /\ UNCHANGED <<kind, reversed, clock, nops, lockVars>>

\* a wheel whose RECORD has a row for a file the wheel does not hold: pip installs
\* the files of the wheel and keeps the row; the row climbs out of site-packages to
\* the script of pip that every sandbox has in its bin directory
TraversalRow ==
    <<"foo", "/", "..", "/", "..", "/", "..", "/", "..", "/", "bin", "/", "pip">>
VenvScript == <<"..", "/", "..", "/", "..", "/", "bin", "/", "pip">>
Crafted ==
    [name |-> <<"x">>, version |-> <<"1.0">>,
     paths |-> {<<"x", ".py">>}
               \cup {InMeta(MetaDirName(<<"x">>, <<"1.0">>), f) :
                        f \in {"INSTALLER", "METADATA", "RECORD"}}]

\* the sandbox after pip installed d: the files of d in site-packages, the rows of
\* its RECORD and, outside site-packages, the script of pip
SandboxWith(v, d, now) ==
    LET v1 == PipInstallDist(v, d, now)
        rec == InMeta(MetaOf(d), "RECORD")
        rows == IF d = Crafted
                THEN Append(RecordOf(d), RecordLine(TraversalRow, FALSE))
                ELSE RecordOf(d)
    IN  [v1 EXCEPT !.files =
            With(With(@, rec, [content |-> rows, mtime |-> now]),
                 VenvScript, [content |-> << <<"pip">> >>, mtime |-> 0])]

\* the upload of one distribution of the sandbox, as install does it after it has
\* made the effective target
UploadDistByMetaDir(d, target) ==
    /\ last.op = "none"
    /\ LET v == SandboxWith(venv, d, clock)
       IN  Finish("_upload_dist_by_meta_dir",
                  [NoArgs EXCEPT !.name = d.name, !.target = target],
                  [NewRun(fs, v, reversed) EXCEPT
                      !.target = target,
                      !.st = _upload_dist_by_meta_dir(
                                 create_dir_if_doesnt_exist(@, target), v, MetaOf(d),
                                 target)],
                  last.prev)
    /\ clock' = clock + 2
    /\ UNCHANGED <<kind, reversed, nops, lockVars>>

Next ==
    \/ \E a \in InstallArgs, pip \in InstallRuns : Install(a, pip)
    \/ \E d \in {Foo1, Crafted}, target \in Targets : UploadDistByMetaDir(d, target)
    \/ \E path \in WritePaths, content \in WriteContents : WriteFile(path, content)
    \/ \E pip \in UninstallRuns : Uninstall(pip)
    \/ \E name \in DistNames, a \in RemoveArgs : RemoveDist(name, a.target, a.above)
    \/ \E paths \in PathLists : ListDists(paths)
    \/ \E a \in AdapterArgs : CreateAdapter(a.mount, a.dir)
    \/ \E op \in QueryOps : \E a \in QueryArgs(op), pip \in QueryRuns : Query(op, a, pip)

Spec == Init /\ [][Next]_vars

(***************************************************************************)
(* A target that holds, besides the distributions of the catalogue, one    *)
(* whose name starts with the name of another and a hyphen: the meta       *)
(* directory foo-bar-1.0.dist-info beside those of foo.  PrefixSpec runs   *)
(* the adapter's remove_dist and list_dists on such targets.               *)
(***************************************************************************)
Prefixed ==
    [name |-> <<"foo", "-", "bar">>, version |-> <<"1.0">>,
     paths |-> {<<"x", ".py">>}
               \cup {InMeta(MetaDirName(<<"foo", "-", "bar">>, <<"1.0">>), f) :
                        f \in {"INSTALLER", "METADATA", "RECORD"}}]

PrefixInit ==
    /\ \E layout \in Layouts : \E pre \in SUBSET Slots(layout) :
         /\ kind = LayoutKind(layout)
         /\ fs = LET f == ProvisionAll(LayoutFs(layout), pre)
                 IN  Provision(f, get_default_target(LayoutKind(layout), f).val, Prefixed)
    /\ reversed \in BOOLEAN
    /\ venv = InitialVenv
    /\ clock = 1
    /\ nops = 0
    /\ proxies = 0
    /\ last = Report("none", NoArgs, EmptyFs, NewRun(EmptyFs, InitialVenv, FALSE), <<>>,
                     NoSession)
    /\ InitLock
    /\ \A w \in Workspaces : workspaces[w].exists

PrefixNext ==
    \/ \E name \in DistNames, a \in RemoveArgs : RemoveDist(name, a.target, a.above)
    \/ \E paths \in PathLists : ListDists(paths)

PrefixSpec == PrefixInit /\ [][PrefixNext]_vars

(***************************************************************************)
(* The sandbox between operations.  The sandbox outlives the Session: what *)
(* an operation finds in it is what an earlier one left, completed or not. *)
(* SandboxSpec runs the steps that every operation starts with on the      *)
(* sandbox as it was built and as an install left it.                      *)
(***************************************************************************)
\* _clear_venv on the sandbox as it was left
ClearVenv ==
    /\ last.op \in {"none", "install"}
    /\ Finish("_clear_venv", NoArgs,
              [NewRun(fs, venv, reversed) EXCEPT !.venv = _clear_venv(@)], last.prev)
    /\ UNCHANGED <<kind, reversed, clock, nops, lockVars>>

\* _get_venv_state on the sandbox as it was left
GetVenvState ==
    /\ last.op \in {"none", "install"}
    /\ Finish("_get_venv_state", NoArgs, StepBefore(NewRun(fs, venv, reversed)), last.prev)
    /\ UNCHANGED <<kind, reversed, clock, nops, lockVars>>

\* _populate_venv and the snapshot that install and uninstall take after it
PopulateVenv ==
    /\ last.op \in {"none", "install"}
    /\ Finish("_populate_venv", NoArgs,
              StepBefore(StepPopulate(kind, NewRun(fs, venv, reversed), <<>>, FALSE, clock)),
              last.prev)
    /\ clock' = clock + 2
    /\ UNCHANGED <<kind, reversed, nops, lockVars>>

SandboxNext ==
    \/ \E a \in InstallArgs, pip \in InstallRuns : last.op = "none" /\ Install(a, pip)
    \/ ClearVenv
    \/ GetVenvState
    \/ PopulateVenv

SandboxSpec == Init /\ [][SandboxNext]_vars

(***************************************************************************)
(* The sandbox lock.  Every Session locks <venv_dir>/pipkin.lock with a     *)
(* FileLock.  The lock is on the file, not on its name: a lock file that    *)
(* is deleted and created again is another file.  holders records which     *)
(* file each process has locked; the operating system drops the locks of a  *)
(* process when the process exits.                                          *)
(***************************************************************************)
HeldBy(p) == {h \in holders : h.proc = p}
IsLocked(file) == \E h \in holders : h.file = file
FreshFile ==
    LET used == {workspaces[w].lock : w \in Workspaces} \cup {h.file : h \in holders}
    IN  1 + CHOOSE n \in used \cup {0} : \A m \in used : m <= n

End(p, exc) ==
    /\ pc' = [pc EXCEPT ![p] = "ended"]
    /\ exit' = [exit EXCEPT ![p] = exc]

\* pipkin.main: create_adapter is called with one of its three positional
\* parameters, and while the TypeError looks for its handler the clause
\* "except UserError" names a class the module does not import:
\* main ends with a NameError before it constructs a Session
Main(p) ==
    /\ pc[p] = "idle"
    /\ End(p, "NameError")
    /\ UNCHANGED <<kind, fs, reversed, venv, clock, last, nops, proxies, holders, workspaces>>

\* Session.__init__, _prepare_venv, "if not os.path.exists(path)": the sandbox is to
\* be built if its directory does not exist
PrepareVenv(p) ==
    /\ pc[p] = "idle"
    /\ pc' = [pc EXCEPT ![p] = IF workspaces[_compute_venv_path(p)].exists
                               THEN "locking" ELSE "building"]
    /\ UNCHANGED <<kind, fs, reversed, venv, clock, last, nops, proxies, holders, exit,
                   workspaces>>

\* _prepare_venv, venv.main and the pip run that installs pip and wheel into the new
\* environment; built is whether that pip run succeeds: if it does not, or the build
\* is interrupted, the directory stays as far as it got
BuildVenv(p, built) ==
    /\ pc[p] = "building"
    /\ workspaces' = [workspaces EXCEPT ![_compute_venv_path(p)].exists = TRUE,
                                        ![_compute_venv_path(p)].complete = built]
    /\ IF built
       THEN pc' = [pc EXCEPT ![p] = "locking"] /\ exit' = exit
       ELSE End(p, "CalledProcessError")
    /\ UNCHANGED <<kind, fs, reversed, venv, clock, last, nops, proxies, holders>>

\* _prepare_venv, lock.acquire(timeout=0): one attempt.  The lock file is created
\* if there is none.  If the directory is gone, what FileLock does depends on its
\* version and platform: the open fails and the error comes through, or it is taken
\* for a held lock (Timeout), or the directory is made again, with nothing but the
\* lock file in it
MissingDir == {"raises", "timeout", "creates"}

AcquireLock(p, missing) ==
    LET path == _compute_venv_path(p)
        file == IF workspaces[path].lock = 0 THEN FreshFile ELSE workspaces[path].lock
    IN  /\ pc[p] = "locking"
        /\ IF ~workspaces[path].exists /\ missing # "creates"
           THEN /\ End(p, IF missing = "raises" THEN "FileNotFoundError" ELSE "UserError")
                /\ UNCHANGED <<holders, workspaces>>
           ELSE IF IsLocked(file)
           THEN /\ End(p, "UserError")
                /\ UNCHANGED <<holders, workspaces>>
           ELSE /\ holders' = holders \cup {[proc |-> p, venv_dir |-> path, file |-> file]}
                /\ workspaces' = [workspaces EXCEPT ![path] =
                                     [exists |-> TRUE, lock |-> file,
                                      complete |-> workspaces[path].exists
                                                   /\ workspaces[path].complete]]
                /\ pc' = [pc EXCEPT ![p] = "session"]
                /\ exit' = exit
        /\ UNCHANGED <<kind, fs, reversed, venv, clock, last, nops, proxies>>

\* the ways a command of the Session ends: it returns, pip is interrupted, pip
\* exits non-zero, an assertion of the Session or of the adapter fails
CommandOutcomes == {"none", "KeyboardInterrupt", "CalledProcessError", "AssertionError"}

\* Session.install, uninstall, list, ...: none of them touches the lock, and the
\* run of the process ends with the command
Command(p, outcome) ==
    /\ pc[p] = "session"
    /\ End(p, outcome)
    /\ UNCHANGED <<kind, fs, reversed, venv, clock, last, nops, proxies, holders, workspaces>>

\* Session.close
close(p) == holders \ HeldBy(p)

\* shutil.rmtree of every workspace.  Where a locked file can be unlinked (POSIX) all
\* of them go; where it cannot (Windows) rmtree raises at the first locked one, having
\* removed the unlocked ones that os.listdir gave before it
Rmtree(held, posix, removed) ==
    [w \in Workspaces |->
        IF posix \/ (held = {} /\ workspaces[w].exists) \/ w \in removed
        THEN [exists |-> FALSE, lock |-> 0, complete |-> FALSE]
        ELSE workspaces[w]]

\* Session.cache: pip cache <command>, and for purge close() and the removal of
\* every workspace
Cache(p, purge, pip_ok, posix, removed) ==
    LET held == {w \in Workspaces : workspaces[w].exists /\ workspaces[w].lock # 0
                                     /\ \E h \in close(p) : h.file = workspaces[w].lock}
    IN  /\ pc[p] = "session"
        /\ removed \subseteq {w \in Workspaces : workspaces[w].exists} \ held
        /\ IF ~pip_ok
           THEN End(p, "CalledProcessError") /\ UNCHANGED <<holders, workspaces>>
           ELSE IF ~purge
           THEN End(p, "none") /\ UNCHANGED <<holders, workspaces>>
           ELSE /\ holders' = close(p)
                /\ workspaces' = Rmtree(held, posix, removed)
                /\ End(p, IF posix \/ held = {} THEN "none" ELSE "PermissionError")
        /\ UNCHANGED <<kind, fs, reversed, venv, clock, last, nops, proxies>>

\* the process exits and the operating system drops its locks
ProcessExit(p) ==
    /\ pc[p] = "ended"
    /\ pc' = [pc EXCEPT ![p] = "gone"]
    /\ holders' = holders \ HeldBy(p)
    /\ UNCHANGED <<kind, fs, reversed, venv, clock, last, nops, proxies, exit, workspaces>>

LockNext ==
    \/ \E p \in Procs : Main(p)
    \/ \E p \in Procs : PrepareVenv(p)
    \/ \E p \in Procs, built \in BOOLEAN : BuildVenv(p, built)
    \/ \E p \in Procs, missing \in MissingDir : AcquireLock(p, missing)
    \/ \E p \in Procs, outcome \in CommandOutcomes : Command(p, outcome)
    \/ \E p \in Procs, purge \in BOOLEAN, pip_ok \in BOOLEAN, posix \in BOOLEAN :
           \E removed \in SUBSET Workspaces : Cache(p, purge, pip_ok, posix, removed)
    \/ \E p \in Procs : ProcessExit(p)

\* the target plays no part in the locking: one target stands for all
LockInit ==
    /\ kind = "dir"
    /\ fs = EmptyFs
    /\ reversed = FALSE
    /\ venv = InitialVenv
    /\ clock = 1
    /\ nops = 0
    /\ proxies = 0
    /\ last = Report("none", NoArgs, EmptyFs, NewRun(EmptyFs, InitialVenv, FALSE), <<>>,
                     NoSession)
    /\ InitLock

LockSpec == LockInit /\ [][LockNext]_vars

(***************************************************************************)
(* What the claims speak of.                                               *)
(***************************************************************************)
\* the meta directories directory path of file system f holds, and those of one name
MetaDirsAt(f, path) ==
    {name \in listdir(f, convert_to_local_path(path)) : endswith(name, MetaSuffix)}
NameOf(meta) == parse_meta_dir_name(meta)[1]
MetasOf(f, path, name) == {m \in MetaDirsAt(f, path) : NameOf(m) = name}

\* everything file system f holds below directory path
Under(f, path) ==
    LET local == convert_to_local_path(path)
    IN  [files |-> [q \in {r \in DOMAIN f.files : IsPrefix(local, r)} |-> f.files[q]],
         dirs |-> {r \in f.dirs : IsPrefix(local, r) /\ r # local}]

SysPathBefore == get_sys_path(kind, last.pre)
IndexIn(q, x) == CHOOSE i \in 1..Len(q) : q[i] = x

\* the paths the last list_dists call went through
ListedPaths ==
    IF last.args.paths = <<>> THEN AbsoluteEntries(get_sys_path(kind, fs))
    ELSE last.args.paths

\* the first of the paths P that holds a meta directory of name n
FirstHolding(f, P, n) ==
    CHOOSE i \in 1..Len(P) :
        MetasOf(f, P[i], n) # {} /\ \A j \in 1..(i - 1) : MetasOf(f, P[j], n) = {}

(***************************************************************************)
(* C1.  list_dists returns exactly one entry for each distribution name    *)
(* found in the paths, and the entry's meta directory and location come    *)
(* from the earliest path that holds a meta directory of that name.        *)
(***************************************************************************)
C1_ShadowingLaw ==
    (last.op = "list_dists" /\ last.exc = "none") =>
        LET P == ListedPaths
        IN  /\ DOMAIN last.listed =
                   {NameOf(m) : m \in UNION {MetaDirsAt(fs, P[i]) : i \in 1..Len(P)}}
            /\ \A n \in DOMAIN last.listed :
                   /\ last.listed[n][2] = P[FirstHolding(fs, P, n)]
                   /\ last.listed[n][1] \in MetasOf(fs, P[FirstHolding(fs, P, n)], n)

\* a listing in which a distribution lies in two of the paths
C1_Witness ==
    /\ last.op = "list_dists" /\ last.exc = "none"
    /\ \E n \in DOMAIN last.listed : \E i, j \in 1..Len(ListedPaths) :
           /\ i < j
           /\ MetasOf(fs, ListedPaths[i], n) # {}
           /\ MetasOf(fs, ListedPaths[j], n) # {}
           /\ last.listed[n][2] = ListedPaths[i]

(***************************************************************************)
(* C2.  remove_dist(name, target=T, above_target=True), T an entry of the  *)
(* search path, removes the distribution from every entry before T and     *)
(* from T, and leaves every entry after T as it was.                       *)
(***************************************************************************)
C2_RemovesAtAndAboveTarget ==
    (/\ last.op = "remove_dist" /\ last.args.above
     /\ \E i \in 1..Len(SysPathBefore) : SysPathBefore[i] = last.args.target) =>
        LET t == IndexIn(SysPathBefore, last.args.target)
        IN  /\ \A i \in 1..t :
                   startswith(SysPathBefore[i], <<"/">>) =>
                       MetasOf(fs, SysPathBefore[i], last.args.name) = {}
            /\ \A i \in (t + 1)..Len(SysPathBefore) :
                   startswith(SysPathBefore[i], <<"/">>) =>
                       Under(fs, SysPathBefore[i]) = Under(last.pre, SysPathBefore[i])

(***************************************************************************)
(* C3.  With foo-1.0 in two entries of the search path, an install of      *)
(* foo==2.0 with neither target nor user removes foo from both, then       *)
(* uploads foo-2.0 to the default target, and list_dists then reports foo  *)
(* at 2.0 only.                                                            *)
(***************************************************************************)
HoldersOf(f, k, meta) ==
    {e \in Range(AbsoluteEntries(get_sys_path(k, f))) : meta \in MetaDirsAt(f, e)}

C3_Scenario ==
    /\ last.op = "install"
    /\ last.args.target = None /\ ~last.args.user
    /\ last.args.pip = [exit |-> "ok", dists |-> {Foo2}]
    /\ Cardinality(HoldersOf(last.pre, kind, MetaOf(Foo1))) = 2

C3_UpgradeReplacesBothCopies ==
    C3_Scenario =>
        /\ last.exc = "none"
        /\ HoldersOf(fs, kind, MetaOf(Foo1)) = {}
        /\ HoldersOf(fs, kind, MetaOf(Foo2)) = {get_default_target(kind, last.pre).val}
        /\ \A i, j \in 1..Len(last.calls) :
               (last.calls[i].op = "remove_file" /\ last.calls[j].op = "write_file") => i < j
        /\ list_dists(kind, World(fs, reversed), <<>>).val =
               [n \in {<<"foo">>} |-> <<MetaOf(Foo2), get_default_target(kind, last.pre).val>>]

(***************************************************************************)
(* C4.  Added, Removed, Changed and Unchanged are pairwise disjoint and    *)
(* together are the keys of the two snapshots; after an install that       *)
(* reaches reconciliation Removed is empty.                                *)
(***************************************************************************)
C4_Added == new_meta_dirs(last.before, last.after)
C4_Removed == removed_meta_dirs(last.before, last.after)
C4_Changed == changed_meta_dirs(last.before, last.after)
C4_Unchanged ==
    {n \in (DOMAIN last.before) \cap (DOMAIN last.after) : last.before[n] = last.after[n]}

C4_DiffPartition ==
    (last.stage \in {"diff", "reconcile", "done"}) =>
        /\ \A A, B \in {<<1, C4_Added>>, <<2, C4_Removed>>, <<3, C4_Changed>>,
                        <<4, C4_Unchanged>>} :
               A[1] # B[1] => A[2] \cap B[2] = {}
        /\ C4_Added \cup C4_Removed \cup C4_Changed \cup C4_Unchanged =
               (DOMAIN last.before) \cup (DOMAIN last.after)
        /\ (last.op = "install" /\ last.stage \in {"reconcile", "done"}) => C4_Removed = {}

\* an install that completed with a distribution added, one changed and none removed
C4_Witness ==
    /\ last.op = "install" /\ last.stage = "done"
    /\ C4_Added # {} /\ C4_Changed # {}

(***************************************************************************)
(* C5.  If a meta directory of the snapshot before pip is missing from the *)
(* snapshot after it, install fails with an AssertionError and has made no *)
(* remove, directory creation or write on the target.                      *)
(***************************************************************************)
C5_VanishedDistFailsInstall ==
    (/\ last.op = "install" /\ last.stage \in {"diff", "reconcile", "done"}
     /\ C4_Removed # {}) =>
        /\ last.exc = "AssertionError"
        /\ last.calls = <<>>
        /\ fs = last.pre

\* pip replaced foo-1.0 by foo-2.0 in the sandbox and install stopped
C5_Witness ==
    /\ last.op = "install" /\ last.stage = "diff"
    /\ MetaOf(Foo1) \in C4_Removed /\ MetaOf(Foo2) \in C4_Added
    /\ last.exc = "AssertionError"

(***************************************************************************)
(* C6.  Uploading a distribution to a location and then removing it from   *)
(* that location leaves none of the uploaded files there and no directory  *)
(* under the location that the removal emptied, whatever manifest the host *)
(* package manager wrote, entries that upload skips included.              *)
(***************************************************************************)
DistOf(meta) == CHOOSE d \in Catalogue : MetaOf(d) = meta
LocalOf(location, rel_path) == convert_to_local_path(join_path(<<location, rel_path>>))

\* the directories strictly between the location and the file rel_path names
DirsBetween(location, rel_path) ==
    LET top == convert_to_local_path(location)
        q == LocalOf(location, rel_path)
    IN  IF IsPrefix(top, q) THEN {SubSeq(q, 1, n) : n \in (Len(top) + 1)..(Len(q) - 1)}
        ELSE {}

\* the meta directories of the removed name that the preceding install uploaded
C6_Uploaded ==
    {m \in last.prev.new \cup last.prev.changed : NameOf(m) = last.args.name}

C6_Case ==
    /\ last.op = "remove_dist"
    /\ last.prev.op = "install" /\ last.prev.done
    /\ last.args.target = last.prev.eff
    /\ C6_Uploaded # {}

C6_UploadThenRemoveLeavesNothing ==
    C6_Case =>
        \A m \in C6_Uploaded : \A rel \in DistOf(m).paths :
            ~startswith(rel, <<"..">>) =>
                /\ ~isfile(fs, LocalOf(last.args.target, rel))
                /\ \A d \in DirsBetween(last.args.target, rel) :
                       isdir(fs, d) => listdir(fs, d) # {}

(***************************************************************************)
(* C7.  remove_dist deletes only files that the manifests of the removed   *)
(* distribution name, changes no other file, removes a directory only when *)
(* nothing is left in it, never removes the location it removes from or a  *)
(* directory above it, and, by pruning children before parents, leaves no  *)
(* emptied directory behind when it completes.                             *)
(***************************************************************************)
\* the locations remove_dist may remove from
C7_Locations ==
    IF Truthy(last.args.target)
    THEN {last.args.target} \cup
         (IF last.args.above /\ \E i \in 1..Len(SysPathBefore) :
                                    SysPathBefore[i] = last.args.target
          THEN {SysPathBefore[i] : i \in 1..(IndexIn(SysPathBefore, last.args.target) - 1)}
          ELSE {})
    ELSE Range(SysPathBefore)

RecordPaths(f, location, meta) ==
    LET record == read_file(f, join_path(<<location, meta, <<"RECORD">> >>)).val
    IN  {Split(record[i], ",")[1] : i \in 1..Len(record)}

C7_Absolute == {e \in C7_Locations : startswith(e, <<"/">>)}

\* the files the manifests of the name name, at the locations they lie in
C7_Owned ==
    UNION {UNION {{LocalOf(e, rel) : rel \in RecordPaths(last.pre, e, m)} :
                     m \in MetasOf(last.pre, e, last.args.name)} : e \in C7_Absolute}

C7_RemovalIsConfined ==
    (last.op = "remove_dist") =>
        /\ DOMAIN fs.files \subseteq DOMAIN last.pre.files
        /\ \A q \in DOMAIN fs.files : fs.files[q] = last.pre.files[q]
        /\ (DOMAIN last.pre.files) \ (DOMAIN fs.files) \subseteq C7_Owned
        /\ fs.dirs \subseteq last.pre.dirs
        /\ \A d \in last.pre.dirs \ fs.dirs :
               /\ \A q \in (DOMAIN fs.files) \cup fs.dirs : ~IsPrefix(d, q)
               /\ \A e \in C7_Absolute : ~IsPrefix(d, convert_to_local_path(e))
        /\ last.exc = "none" =>
               \A e \in C7_Absolute :
                   \A m \in MetasOf(last.pre, e, last.args.name) \ MetaDirsAt(fs, e) :
                       \A rel \in RecordPaths(last.pre, e, m) :
                           \A d \in DirsBetween(e, rel) :
                               isdir(fs, d) => listdir(fs, d) # {}

\* a removal that deleted the files of foo and pruned foo/bin and then foo
C7_Witness ==
    /\ last.op = "remove_dist" /\ last.exc = "none"
    /\ last.args.name = <<"foo">>
    /\ (DOMAIN last.pre.files) \ (DOMAIN fs.files) # {}
    /\ \E d, e \in last.pre.dirs \ fs.dirs : d # e /\ IsPrefix(d, e)

(***************************************************************************)
(* C8.  After install has added a distribution with meta directory M to    *)
(* the sandbox and completed, list_dists on the target maps the name of    *)
(* the distribution to M.                                                  *)
(***************************************************************************)
C8_Case ==
    /\ last.op = "list_dists" /\ last.args.paths = <<>>
    /\ last.prev.op = "install" /\ last.prev.done

C8_InstallThenList ==
    C8_Case =>
        \A m \in last.prev.new :
            /\ NameOf(m) \in DOMAIN last.listed
            /\ last.listed[NameOf(m)][1] = m

\* the same, for an install that uploaded to an entry of the target's search path
C8_InstallThenListAmended ==
    (C8_Case /\ last.prev.on_path) =>
        \A m \in last.prev.new :
            /\ NameOf(m) \in DOMAIN last.listed
            /\ last.listed[NameOf(m)][1] = m

C8_Witness ==
    /\ C8_Case /\ last.prev.on_path
    /\ MetaOf(Foo2) \in last.prev.new
    /\ last.listed[<<"foo">>][1] = MetaOf(Foo2)

(***************************************************************************)
(* C9.  At most one Session holds the lock of a sandbox at any time; a     *)
(* Session constructed on a sandbox whose lock is held does not wait but   *)
(* fails at once with a UserError, and the lock of the holder is not       *)
(* affected.                                                               *)
(***************************************************************************)
AtMostOneHolder ==
    \A g, h \in holders : g.venv_dir = h.venv_dir => g = h

\* process p makes its attempt at the lock of its sandbox while a Session holds it
AttemptsHeldLock(p) ==
    /\ pc[p] = "locking" /\ pc'[p] # "locking"
    /\ workspaces[_compute_venv_path(p)].exists
    /\ \E h \in holders : h.venv_dir = _compute_venv_path(p)

C9_ExclusiveLock ==
    [][/\ AtMostOneHolder'
       /\ \A p \in Procs :
              AttemptsHeldLock(p) =>
                  /\ pc'[p] = "ended" /\ exit'[p] = "UserError"
                  /\ holders' = holders]_vars

(***************************************************************************)
(* C10.  Once a Session has acquired the lock of the sandbox, the lock is  *)
(* released by the time the run has ended, whichever way it ends: the      *)
(* command returns, pip is interrupted, pip exits non-zero, or another     *)
(* exception is raised.                                                    *)
(***************************************************************************)
C10_LockReleasedWhenRunEnds ==
    \A p \in Procs : pc[p] = "ended" => HeldBy(p) = {}

(***************************************************************************)
(* C11.  Every index proxy a Session operation starts is shut down before  *)
(* the operation returns or raises, whether pip succeeds, fails or is      *)
(* interrupted: no proxy runs between two operations, and at no moment of  *)
(* an operation does more than one run.                                    *)
(***************************************************************************)
C11_ProxyNeverOutlivesOperation ==
    /\ proxies = 0
    /\ last.peak <= 1
    /\ last.started <= 1

\* an install whose pip was interrupted while its proxy served
C11_Witness ==
    /\ last.op = "install"
    /\ last.started = 1
    /\ last.peak = 1
    /\ last.exc = "KeyboardInterrupt"
    /\ proxies = 0

(***************************************************************************)
(* C12.  The effective target of install is the target argument when       *)
(* given, else the adapter's user packages path when user is set, else the *)
(* adapter's default target; the directory creation and every upload of    *)
(* that install go to this one location.                                   *)
(***************************************************************************)
C12_Expected ==
    IF Truthy(last.args.target) THEN last.args.target
    ELSE IF last.args.user THEN get_user_packages_path
    ELSE get_default_target(kind, last.pre).val

\* the paths install created or wrote on the target
C12_Placed ==
    {last.calls[i].path : i \in {j \in 1..Len(last.calls) :
                                    last.calls[j].op \in {"makedirs", "write_file"}}}

C12_EffectiveTargetByPriority ==
    last.op = "install" =>
        /\ last.stage \in {"reconcile", "done"} => last.eff = C12_Expected
        /\ \A path \in C12_Placed :
              path = C12_Expected \/ startswith(path, C12_Expected \o <<"/">>)

\* a completed install with both target and user given that created the target
\* directory and uploaded into it
C12_Witness ==
    /\ last.op = "install"
    /\ last.stage = "done"
    /\ Truthy(last.args.target)
    /\ last.args.user
    /\ last.args.target \in C12_Placed
    /\ \E path \in C12_Placed : startswith(path, last.args.target \o <<"/">>)

(***************************************************************************)
(* C13.  For every distribution install classifies Changed, the old copy   *)
(* on the target is removed before any file of the new copy is uploaded;   *)
(* with neither target nor user given, so are the copies in the entries of *)
(* the search path above the effective target.                             *)
(***************************************************************************)
C13_FirstWrite ==
    LET writes == {i \in 1..Len(last.calls) : last.calls[i].op = "write_file"}
    IN  IF writes = {} THEN Len(last.calls) + 1
        ELSE CHOOSE i \in writes : \A j \in writes : i <= j

\* the entries of the search path above the effective target
C13_Above ==
    IF \E i \in 1..Len(SysPathBefore) : SysPathBefore[i] = last.eff
    THEN {SysPathBefore[i] : i \in 1..(IndexIn(SysPathBefore, last.eff) - 1)}
    ELSE {}

\* where the old copy has to go from
C13_Locations ==
    {e \in {last.eff} \cup (IF ~Truthy(last.args.target) /\ ~last.args.user
                            THEN C13_Above ELSE {}) :
        e # None /\ startswith(e, <<"/">>)}

\* every file of the old copies of the changed distributions is removed before the
\* first upload
C13_OldCopiesGoFirst ==
    \A m \in last.changed : \A e \in C13_Locations :
        \A old \in MetasOf(last.pre, e, NameOf(m)) :
            \A rel \in RecordPaths(last.pre, e, old) :
                \E i \in 1..(C13_FirstWrite - 1) :
                    last.calls[i] = [op |-> "remove_file", path |-> join_path(<<e, rel>>)]

C13_Uploading ==
    /\ last.op = "install"
    /\ last.stage = "done" \/ C13_FirstWrite <= Len(last.calls)

\* the statement as it stands: whatever the arguments of install
C13_ChangedRemovedBeforeUpload == C13_Uploading => C13_OldCopiesGoFirst

\* the statement for the installs that are not given a target without upgrade
C13_ChangedRemovedBeforeUploadAmended ==
    (C13_Uploading /\ ~(Truthy(last.args.target) /\ ~last.args.upgrade)) =>
        C13_OldCopiesGoFirst

\* a completed install with neither target nor user that found the changed
\* distribution at the effective target and in an entry above it
C13_Witness ==
    /\ last.op = "install" /\ last.stage = "done"
    /\ ~Truthy(last.args.target) /\ ~last.args.user
    /\ \E m \in last.changed :
           /\ MetasOf(last.pre, last.eff, NameOf(m)) # {}
           /\ \E e \in C13_Above : startswith(e, <<"/">>) /\ MetasOf(last.pre, e, NameOf(m)) # {}

(***************************************************************************)
(* C14.  For every Added or Changed distribution a completed install goes  *)
(* through the manifest the sandbox holds after pip ran: each entry that   *)
(* does not escape the sandbox is written exactly once, with its sandbox   *)
(* content, to join(effective target, relative path), its parent          *)
(* directory being there before the write; an entry that escapes is not    *)
(* written.                                                                *)
(***************************************************************************)
\* the relative paths of the manifest of meta directory m in the sandbox
C14_Rows(m) ==
    LET record == venv.files[InMeta(m, "RECORD")].content
    IN  {Split(record[i], ",")[1] : i \in 1..Len(record)}

C14_Writes(path) ==
    {i \in 1..Len(last.calls) : last.calls[i] = [op |-> "write_file", path |-> path]}

\* directory dir of the target is there when call i is made: the latest earlier call
\* on it created it, or none touched it and it was there before the install
C14_DirThereAt(dir, i) ==
    LET local == convert_to_local_path(dir)
        made(j) == /\ last.calls[j].op = "makedirs"
                   /\ IsPrefix(local, convert_to_local_path(last.calls[j].path))
        gone(j) == /\ last.calls[j].op = "rmdir"
                   /\ convert_to_local_path(last.calls[j].path) = local
        touched == {j \in 1..(i - 1) : made(j) \/ gone(j)}
    IN  IF touched = {} THEN isdir(last.pre, local)
        ELSE made(CHOOSE j \in touched : \A n \in touched : n <= j)

C14_UploadFollowsManifest ==
    (last.op = "install" /\ last.stage = "done") =>
        \A m \in last.new \cup last.changed : \A rel \in C14_Rows(m) :
            LET path == join_path(<<last.eff, rel>>)
            IN  IF startswith(rel, <<"..">>) THEN C14_Writes(path) = {}
                ELSE /\ Cardinality(C14_Writes(path)) = 1
                     /\ isfile(fs, convert_to_local_path(path))
                     /\ fs.files[convert_to_local_path(path)] = venv.files[NormRel(rel)].content
                     /\ \A i \in C14_Writes(path) :
                            C14_DirThereAt(split_dir_and_basename(path)[1], i)

\* a completed install of a new distribution with an escaping entry and of a changed
\* one, for which a directory was created
C14_Witness ==
    /\ last.op = "install" /\ last.stage = "done"
    /\ last.changed # {}
    /\ \E m \in last.new : \E rel \in C14_Rows(m) : startswith(rel, <<"..">>)
    /\ \E i \in 1..Len(last.calls) : last.calls[i].op = "makedirs"

(***************************************************************************)
(* C15.  For a distribution install classifies Unchanged (the same meta    *)
(* directory with the same token before and after) install makes no        *)
(* remove_dist call and writes no file of its manifest.                    *)
(***************************************************************************)
C15_Unchanged ==
    {m \in (DOMAIN last.before) \cap (DOMAIN last.after) : last.before[m] = last.after[m]}

\* the files of m: those its manifests on the target name, and the places the rows
\* of its manifest in the sandbox would be uploaded to
C15_FilesOf(m) ==
    UNION {{LocalOf(e, rel) : rel \in RecordPaths(last.pre, e, m)} :
              e \in {x \in Range(AbsoluteEntries(SysPathBefore)) : m \in MetaDirsAt(last.pre, x)}}
    \cup (IF last.eff # None /\ startswith(last.eff, <<"/">>)
          THEN {LocalOf(last.eff, rel) : rel \in C14_Rows(m)}
          ELSE {})

C15_UnchangedIsNotTouched ==
    last.op = "install" =>
        \A m \in C15_Unchanged : \A i \in 1..Len(last.calls) :
            /\ last.calls[i] # [op |-> "remove_dist", path |-> NameOf(m)]
            /\ last.calls[i].op = "write_file" =>
                   convert_to_local_path(last.calls[i].path) \notin C15_FilesOf(m)

\* a completed install that removed and uploaded a changed distribution while
\* another one, present on the target, was unchanged
C15_Witness ==
    /\ last.op = "install" /\ last.stage = "done"
    /\ \E m \in C15_Unchanged : \E e \in Range(AbsoluteEntries(SysPathBefore)) :
           m \in MetaDirsAt(last.pre, e)
    /\ \E i, j \in 1..Len(last.calls) :
           last.calls[i].op = "remove_dist" /\ last.calls[j].op = "write_file"

(***************************************************************************)
(* C16.  uninstall populates the sandbox, takes a snapshot, runs pip and   *)
(* takes a second snapshot, in that order; it then calls remove_dist       *)
(* exactly once for each meta directory of the first snapshot that the     *)
(* second lacks, and it neither writes a file nor creates a directory on   *)
(* the target.                                                             *)
(***************************************************************************)
\* the meta directories the populated sandbox holds: those list_dists reports
C16_Populated ==
    LET d == list_dists(kind, World(last.pre, reversed), <<>>)
    IN  {d.val[n][1] : n \in DOMAIN d.val}

C16_PipRemoves == {MetaOf(d) : d \in last.args.pip.dists}

C16_Removed == {m \in DOMAIN last.before : m \notin DOMAIN last.after}

C16_RemoveCalls(name) ==
    {i \in 1..Len(last.calls) : last.calls[i] = [op |-> "remove_dist", path |-> name]}

C16_UninstallShape ==
    last.op = "uninstall" =>
        /\ \A i \in 1..Len(last.calls) : last.calls[i].op \notin {"write_file", "makedirs"}
        /\ last.stage \in {"reconcile", "done"} =>
               /\ DOMAIN last.before = C16_Populated
               /\ DOMAIN last.after = C16_Populated \ C16_PipRemoves
               /\ \A i \in 1..Len(last.calls) :
                      last.calls[i].op = "remove_dist" =>
                          \E m \in C16_Removed : NameOf(m) = last.calls[i].path
               /\ \A m \in C16_Removed : Cardinality(C16_RemoveCalls(NameOf(m))) <= 1
        /\ last.stage = "done" =>
               \A m \in C16_Removed : Cardinality(C16_RemoveCalls(NameOf(m))) = 1
        /\ last.stage \notin {"reconcile", "done"} =>
               \A i \in 1..Len(last.calls) : last.calls[i].op # "remove_dist"

\* a completed uninstall in which pip removed two distributions from the sandbox
C16_Witness ==
    /\ last.op = "uninstall" /\ last.stage = "done"
    /\ Cardinality(C16_Removed) = 2
    /\ \A m \in C16_Removed : C16_RemoveCalls(NameOf(m)) # {}

(***************************************************************************)
(* C17.  remove_dist with neither target nor above_target removes the      *)
(* distribution from the first entry of the search path that holds it and  *)
(* leaves every later entry, a shadowed copy included, as it was.          *)
(***************************************************************************)
C17_Paths == AbsoluteEntries(SysPathBefore)

C17_Case ==
    /\ last.op = "remove_dist"
    /\ ~Truthy(last.args.target) /\ ~last.args.above
    /\ \E i \in 1..Len(C17_Paths) : MetasOf(last.pre, C17_Paths[i], last.args.name) # {}

C17_RemovesFirstVisibleOnly ==
    C17_Case =>
        LET first == FirstHolding(last.pre, C17_Paths, last.args.name)
        IN  /\ MetasOf(fs, C17_Paths[first], last.args.name) = {}
            /\ \A j \in (first + 1)..Len(C17_Paths) :
                   Under(fs, C17_Paths[j]) = Under(last.pre, C17_Paths[j])

(***************************************************************************)
(* C18.  remove_dist(name, target=T) without above_target changes nothing  *)
(* outside T, and the copies of the distribution in the other entries of   *)
(* the search path, before or after T, stay as they were.                  *)
(***************************************************************************)
C18_Case ==
    /\ last.op = "remove_dist"
    /\ Truthy(last.args.target) /\ ~last.args.above

\* f and g hold the same at local path q
C18_Same(f, g, q) ==
    /\ isdir(f, q) <=> isdir(g, q)
    /\ isfile(f, q) <=> isfile(g, q)
    /\ isfile(f, q) /\ isfile(g, q) => f.files[q] = g.files[q]

C18_AllPaths == (DOMAIN fs.files) \cup fs.dirs \cup (DOMAIN last.pre.files) \cup last.pre.dirs

\* the files and the meta directories of the copies of the name in entry e
C18_CopyAt(e) ==
    UNION {{LocalOf(e, rel) : rel \in RecordPaths(last.pre, e, m)}
           \cup {convert_to_local_path(join_path(<<e, m>>))} :
              m \in MetasOf(last.pre, e, last.args.name)}

C18_OnlyTargetChanges ==
    C18_Case =>
        /\ \A q \in C18_AllPaths :
               ~IsPrefix(convert_to_local_path(last.args.target), q) =>
                   C18_Same(fs, last.pre, q)
        /\ \A e \in Range(AbsoluteEntries(SysPathBefore)) \ {last.args.target} :
               \A q \in C18_CopyAt(e) : C18_Same(fs, last.pre, q)

(***************************************************************************)
(* C19: remove_dist for a name found nowhere.                              *)
(***************************************************************************)
\* the entries of the search path that come before the entry t
C19_EntriesBefore(sp, t) ==
    {sp[i] : i \in {j \in 1..Len(sp) : \A h \in 1..j : sp[h] # t}}

\* the locations the latest remove_dist looked into
C19_Searched ==
    IF Truthy(last.args.target)
    THEN {last.args.target}
         \cup (IF last.args.above /\ last.args.target \in Range(SysPathBefore)
               THEN C19_EntriesBefore(SysPathBefore, last.args.target) \ {<<>>}
               ELSE {})
    ELSE Range(AbsoluteEntries(SysPathBefore))

C19_FoundNowhere ==
    /\ last.op = "remove_dist"
    /\ \A e \in C19_Searched :
         startswith(e, <<"/">>) => MetasOf(last.pre, e, last.args.name) = {}

\* the same call made once more on the target as the first call left it
C19_Again ==
    remove_dist(kind, World(fs, reversed), last.args.name, last.args.target,
                last.args.above)

\* C19: a remove_dist whose distribution name is in none of the locations it searches
\* returns without an exception, records one warning and leaves the target as it
\* was; the same call made again does the same.
C19_NotFoundIsAWarning ==
    C19_FoundNowhere =>
        /\ last.exc = "none"
        /\ last.warnings = 1
        /\ fs = last.pre
        /\ C19_Again.exc = "none"
        /\ C19_Again.warnings = 1
        /\ C19_Again.fs = fs


(***************************************************************************)
(* C20: list_dists and the entries it cannot list.                         *)
(***************************************************************************)
\* the paths the latest list_dists went through
C20_Paths ==
    IF last.args.paths = <<>> THEN AbsoluteEntries(SysPathBefore) ELSE last.args.paths

\* those of them that are directories of the target
C20_Listable ==
    SelectSeq(C20_Paths, LAMBDA e : isdir(last.pre, convert_to_local_path(e)))

\* what list_dists gives for the directories alone
C20_Remaining ==
    list_dists_paths(World(last.pre, reversed), C20_Listable, [exc |-> "none", val |-> <<>>])

C20_Case ==
    /\ last.op = "list_dists"
    /\ \E i \in 1..Len(C20_Paths) : ~isdir(last.pre, convert_to_local_path(C20_Paths[i]))

\* C20: list_dists passes over every entry that is not a directory it can list, a
\* missing one or a file, and returns what the remaining entries hold without
\* raising.
C20_SkipsUnlistableEntries ==
    (C20_Case /\ C20_Remaining.exc = "none") =>
        /\ last.exc = "none"
        /\ last.listed = C20_Remaining.val


(***************************************************************************)
(* C21: an adapter constructed on a root that does not exist.              *)
(***************************************************************************)
\* the root the latest adapter was constructed on
C21_Root == IF Truthy(last.args.dir) THEN last.args.dir ELSE last.args.mount

C21_MissingRoot ==
    /\ last.op = "create_adapter"
    /\ Truthy(C21_Root)
    /\ ~exists(last.pre, normpath(C21_Root))

\* C21 as stated: constructing a DirAdapter or a MountAdapter on a root that does not
\* exist fails with UserError and leaves the file system as it was.
C21_MissingRootIsUserError ==
    C21_MissingRoot => (last.exc = "UserError" /\ fs = last.pre)

\* C21, amended: a MountAdapter on a root that does not exist fails with UserError and
\* leaves the file system as it was; a DirAdapter on such a root does not fail, it
\* creates the root directory (with its missing ancestors) and nothing else.
C21_MissingRootAmended ==
    C21_MissingRoot =>
        IF Truthy(last.args.dir)
        THEN /\ last.exc = "none"
             /\ fs.files = last.pre.files
             /\ fs.dirs = last.pre.dirs \cup Prefixes(normpath(C21_Root))
        ELSE last.exc = "UserError" /\ fs = last.pre

C21_Witness ==
    /\ C21_MissingRoot
    /\ Truthy(last.args.mount)
    /\ last.exc = "UserError"
    /\ last.pre.files # <<>>


(***************************************************************************)
(* C22: the operations that only ask.                                      *)
(***************************************************************************)
\* C22: list, show, freeze, check, download and wheel make no call that changes the
\* target (no remove_dist, no write_file, no directory created, no file or directory
\* removed) and leave its file system as it was, whatever pip did in the sandbox and
\* however it ended.
C22_QueriesLeaveTargetAlone ==
    last.op \in QueryOps => (last.calls = <<>> /\ fs = last.pre)

\* list has run on a target that holds a distribution and pip left another in the
\* sandbox
C22_Witness ==
    /\ last.op = "list"
    /\ last.exc = "none"
    /\ last.stage = "pip"
    /\ last.pre.files # <<>>
    /\ last.args.pip.dists # {}
    /\ InMeta(MetaOf(Foo2), "METADATA") \in DOMAIN venv.files


(***************************************************************************)
(* C23: pip exits with a non-zero status.                                  *)
(***************************************************************************)
\* pip was run (the run got past populate) and exited non-zero
C23_PipFailed ==
    /\ last.op \in {"install", "uninstall"}
    /\ last.stage \notin {"start", "populate"}
    /\ last.args.pip.exit = "fail"

\* C23: when the pip subprocess of install or uninstall exits non-zero, the caller
\* gets its CalledProcessError and the operation has made no changing call on the
\* target (no remove, no directory created, no write): the target is as it was, also
\* when pip had changed the sandbox before it failed.
C23_PipFailurePropagates ==
    C23_PipFailed =>
        /\ last.exc = "CalledProcessError"
        /\ last.calls = <<>>
        /\ fs = last.pre

\* install on a target holding a distribution, pip failing after it put foo 2.0 into
\* the sandbox
C23_Witness ==
    /\ C23_PipFailed
    /\ last.op = "install"
    /\ last.pre.files # <<>>
    /\ InMeta(MetaOf(Foo2), "METADATA") \in DOMAIN venv.files


(***************************************************************************)
(* C24: the sandbox is changed only under its lock.                        *)
(***************************************************************************)
\* p is changing its sandbox: it builds it (venv.main and the pip run that installs
\* the support distributions), or its Session runs commands on it (clear, populate,
\* pip)
C24_Building(p) == pc[p] = "building"
C24_Using(p) == pc[p] = "session"

\* p holds the lock of its sandbox
C24_HoldsLock(p) == \E h \in holders : h.proc = p /\ h.venv_dir = _compute_venv_path(p)

C24_SameSandbox(p, q) == p # q /\ _compute_venv_path(p) = _compute_venv_path(q)

\* C24: a process changes a sandbox only while it holds the sandbox's lock; two
\* processes never build the same sandbox at the same time, and none uses a sandbox
\* that another is still building.
C24_MutationOnlyUnderLock ==
    /\ \A p \in Procs : (C24_Building(p) \/ C24_Using(p)) => C24_HoldsLock(p)
    /\ \A p, q \in Procs :
         C24_SameSandbox(p, q) => ~(C24_Building(p) /\ C24_Building(q))
    /\ \A p, q \in Procs :
         C24_SameSandbox(p, q) => ~(C24_Building(p) /\ C24_Using(q))


(***************************************************************************)
(* C25: what the clearing leaves in the sandbox.                           *)
(***************************************************************************)
\* the names of the auxiliary support items: pip, setuptools, pkg_resources, wheel,
\* their dist-info directories and easy_install.py
C25_Auxiliary(name) ==
    \/ name \in {<<"pip">>, <<"setuptools">>, <<"pkg_resources">>, <<"wheel">>,
                 <<"easy_install", ".py">>}
    \/ /\ endswith(name, MetaSuffix)
       /\ \E aux \in {"pip", "setuptools", "pkg_resources", "wheel"} : name[1] = aux

\* the stubs populate makes for the target as it is
C25_Stubs == {m \in UNION {MetaDirsAt(last.pre, e) :
                              e \in Range(AbsoluteEntries(SysPathBefore))} : TRUE}

\* C25: after the clearing that starts every populate the sandbox holds the auxiliary
\* support items it held before and nothing else: whatever an earlier operation left
\* (stubs, distributions that pip installed, also by a run that was interrupted) is
\* gone, so after populate it holds the auxiliary items and stubs for the present
\* target only.
C25_ClearedToAuxiliary ==
    /\ last.op = "_clear_venv" =>
         /\ \A name \in TopNames(venv) : C25_Auxiliary(name)
         /\ \A path \in DOMAIN last.venv0.files :
              C25_Auxiliary(TopName(path)) =>
                  /\ path \in DOMAIN venv.files
                  /\ venv.files[path] = last.venv0.files[path]
    /\ (last.op = "_populate_venv" /\ last.exc = "none") =>
         \A name \in TopNames(venv) : C25_Auxiliary(name) \/ name \in C25_Stubs

\* a sandbox with a stub and a distribution of an earlier run has been cleared
C25_Witness ==
    /\ last.op = "_clear_venv"
    /\ \E path \in DOMAIN last.venv0.files : TopName(path) = <<"foo">>
    /\ \E path \in DOMAIN last.venv0.files : TopName(path) = MetaOf(Bar1)
    /\ TopNames(venv) # {}


(***************************************************************************)
(* C26: nothing but pip changes the sandbox between the two snapshots.     *)
(***************************************************************************)
\* install or uninstall has taken both snapshots
C26_Window ==
    /\ last.op \in {"install", "uninstall"}
    /\ last.stage \in {"diff", "reconcile", "done"}

\* the names of the distributions pip installed or removed in the run
C26_PipNames == {d.name : d \in last.args.pip.dists}

\* C26: between the two snapshots of an install or uninstall the sandbox is not
\* cleared: a stub of a distribution that pip did not touch is in the second snapshot
\* as it was in the first, so whatever is classified Removed or New is pip's doing.
C26_OnlyPipChangesInWindow ==
    C26_Window =>
        /\ \A name \in DOMAIN last.before :
             NameOf(name) \notin C26_PipNames =>
                 /\ name \in DOMAIN last.after
                 /\ last.after[name] = last.before[name]
        /\ \A name \in removed_meta_dirs(last.before, last.after) :
             NameOf(name) \in C26_PipNames
        /\ \A name \in new_meta_dirs(last.before, last.after) :
             NameOf(name) \in C26_PipNames

\* uninstall removed one distribution while the stub of another stayed
C26_Witness ==
    /\ C26_Window
    /\ last.op = "uninstall"
    /\ removed_meta_dirs(last.before, last.after) # {}
    /\ \E name \in DOMAIN last.before : NameOf(name) \notin C26_PipNames


(***************************************************************************)
(* C27: when the two snapshots are taken.                                  *)
(***************************************************************************)
\* install or uninstall has taken its first snapshot
C27_BeforeTaken ==
    /\ last.op \in {"install", "uninstall"}
    /\ last.stage \in {"pip", "diff", "reconcile", "done"}

\* and its second
C27_AfterTaken ==
    /\ last.op \in {"install", "uninstall"}
    /\ last.stage \in {"diff", "reconcile", "done"}

\* the meta directories of sandbox v that a snapshot has keys for, and the snapshot
C27_Keys(v) ==
    {name \in TopNames(v) : endswith(name, MetaSuffix) /\ ~C25_Auxiliary(name)}
C27_Snapshot(v) ==
    [name \in C27_Keys(v) |-> v.files[InMeta(name, "METADATA")].mtime]

\* the meta directories the adapter reports for the target as the run found it
C27_Reported ==
    {list_dists(kind, World(last.pre, reversed), <<>>).val[n][1] :
        n \in DOMAIN list_dists(kind, World(last.pre, reversed), <<>>).val}

\* C27 as stated: the first snapshot is the state of the sandbox as the operation
\* found it, before populate; the second is its state when pip has returned.
C27_SnapshotsBeforePopulateAfterPip ==
    /\ C27_BeforeTaken => last.before = C27_Snapshot(last.venv0)
    /\ C27_AfterTaken => last.after = C27_Snapshot(venv)

\* C27, amended: the first snapshot is taken after populate and before pip is run: its
\* keys are the stubs populate has just made, each with the time populate made it;
\* the second is the state of the sandbox when pip has returned.
C27_SnapshotsAfterPopulateAfterPip ==
    /\ C27_BeforeTaken =>
         /\ DOMAIN last.before = C27_Reported
         /\ \A name \in DOMAIN last.before : last.before[name] = clock - 2
    /\ C27_AfterTaken => last.after = C27_Snapshot(venv)

\* install on a target holding a distribution, pip adding another
C27_Witness ==
    /\ C27_AfterTaken
    /\ last.op = "install"
    /\ DOMAIN last.before # {}
    /\ DOMAIN last.after # DOMAIN last.before


(***************************************************************************)
(* C28: the keys of a snapshot.                                            *)
(***************************************************************************)
\* _get_venv_state has been called on the sandbox as it is now: on its own, or
\* after populate
C28_Taken == last.op \in {"_get_venv_state", "_populate_venv"}

\* C28: a snapshot of the sandbox is taken without an exception, has no key for pip,
\* setuptools, pkg_resources or wheel, and has a key for every other .dist-info
\* directory in the sandbox, a stub of populate or a directory pip wrote.
C28_SnapshotKeys ==
    C28_Taken =>
        /\ last.exc = "none"
        /\ \A name \in DOMAIN last.before : NameOf(name) \notin INITIAL_VENV_DISTS
        /\ \A name \in TopNames(venv) :
             (endswith(name, MetaSuffix) /\ name[1] \notin {"pip", "setuptools",
                                                            "pkg_resources", "wheel"})
                 => name \in DOMAIN last.before

\* a snapshot of a sandbox that holds pip's own dist-info, a stub and a distribution
\* that pip installed
C28_Witness ==
    /\ last.op = "_get_venv_state"
    /\ MetaOf(Foo2) \in DOMAIN last.before
    /\ MetaOf(Bar1) \in DOMAIN last.before
    /\ <<"foo", "/", "a", ".py">> \in DOMAIN venv.files
    /\ <<"bar", ".py">> \notin DOMAIN venv.files
    /\ \E name \in TopNames(venv) : endswith(name, MetaSuffix) /\ name[1] = "pip"


(***************************************************************************)
(* C29: the stubs populate makes.                                          *)
(***************************************************************************)
\* what the adapter reports for the target: name |-> <<meta directory, location>>
C29_Reported == list_dists(kind, World(last.pre, reversed), <<>>).val

C29_StubFiles(m) == {InMeta(m, "METADATA"), InMeta(m, "INSTALLER"), InMeta(m, "RECORD")}

\* the sandbox holds a stub for meta directory m found at location loc of the target
C29_IsStub(m, loc) ==
    /\ {path \in DOMAIN venv.files : TopName(path) = m} = C29_StubFiles(m)
    /\ venv.files[InMeta(m, "METADATA")].content =
           last.pre.files[LocalOf(loc, InMeta(m, "METADATA"))]
    /\ Len(venv.files[InMeta(m, "RECORD")].content) = 3
    /\ Range(venv.files[InMeta(m, "RECORD")].content) =
           {path \o <<",", ",">> : path \in C29_StubFiles(m)}

\* C29: after populate the sandbox holds, for every distribution the adapter reports
\* for the target, one stub directory of the reported name with METADATA as on the
\* target, INSTALLER and a RECORD that names these three files with neither checksum
\* nor size; and the snapshot then taken has exactly the reported names as its keys.
C29_PopulateMakesStubs ==
    (last.op = "_populate_venv" /\ last.exc = "none") =>
        /\ \A n \in DOMAIN C29_Reported :
             C29_IsStub(C29_Reported[n][1], C29_Reported[n][2])
        /\ DOMAIN last.before = {C29_Reported[n][1] : n \in DOMAIN C29_Reported}

\* populate on a target with two distributions, in a sandbox an install had left
\* things in
C29_Witness ==
    /\ last.op = "_populate_venv"
    /\ last.exc = "none"
    /\ Cardinality(DOMAIN C29_Reported) = 2
    /\ \E path \in DOMAIN last.venv0.files : ~C25_Auxiliary(TopName(path))


(***************************************************************************)
(* C30: a manifest entry that leads out of the sandbox.                    *)
(***************************************************************************)
\* install has come to upload bar, whose manifest has the row "../../bin/bar"
C30_Case ==
    /\ last.op = "install"
    /\ last.stage \in {"reconcile", "done"}
    /\ MetaOf(Bar1) \in last.new \cup last.changed
    /\ Truthy(last.eff)
    /\ startswith(last.eff, <<"/">>)

C30_Manifest == venv.files[InMeta(MetaOf(Bar1), "RECORD")].content
C30_Escapes(line) == startswith(Split(line, ",")[1], <<"..">>)

\* the target as the run found it, with the directory of the effective target made
C30_Start == create_dir_if_doesnt_exist(World(last.pre, reversed), last.eff)

\* C30 as stated: an install that uploads a distribution whose manifest has an entry
\* that leads out of the sandbox fails.
C30_EscapingEntryFailsInstall ==
    C30_Case => last.exc # "none"

\* C30, amended: the upload passes over such an entry and nothing tells of it: the
\* upload of the manifest does what the upload of the manifest without the entry does
\* (the same files written, the same directories made, the same outcome), and no call
\* of the run writes or makes anything at a path with "..".
C30_EscapingEntryIsSkipped ==
    C30_Case =>
        /\ \E i \in 1..Len(C30_Manifest) : C30_Escapes(C30_Manifest[i])
        /\ upload_lines(C30_Start, venv, C30_Manifest, last.eff, {last.eff})
             = upload_lines(C30_Start, venv,
                            SelectSeq(C30_Manifest, LAMBDA line : ~C30_Escapes(line)),
                            last.eff, {last.eff})
        /\ \A i \in 1..Len(last.calls) :
             last.calls[i].op \in {"write_file", "makedirs"}
                 => ~contains(last.calls[i].path, "..")

\* an install that uploaded bar and completed
C30_Witness ==
    /\ C30_Case
    /\ last.stage = "done"
    /\ last.exc = "none"
    /\ \E i \in 1..Len(last.calls) :
         /\ last.calls[i].op = "write_file"
         /\ last.calls[i].path = join_path(<<last.eff, <<"bar", ".py">> >>)

(***************************************************************************)
(* C31: the search path during one Session.                                *)
(***************************************************************************)
\* the operations of a Session and of its adapter that write to the target
C31_Mutating == last.op \in {"install", "uninstall", "remove_dist"}

\* C31: the search path the adapter reports after an install, an uninstall or a
\* removal of the Session is the ordered sequence it reported before it, whatever
\* the operation created or deleted on the target.
C31_SysPathStable ==
    C31_Mutating => get_sys_path(kind, fs) = get_sys_path(kind, last.pre)

(***************************************************************************)
(* C32: what write_file leaves in the file.                                *)
(***************************************************************************)
\* a write_file that returned
C32_Case == last.op = "write_file" /\ last.exc = "none"

\* what the call did to the open file
C32_Events == write_blocks(last.args.content, <<>>)

\* every block is written, flushed and synced before the next one or the return
C32_EveryBlockSynced ==
    /\ Len(C32_Events) % 3 = 0
    /\ \A i \in 1..Len(C32_Events) :
         C32_Events[i].op = CASE i % 3 = 1 -> "write"
                              [] i % 3 = 2 -> "flush"
                              [] OTHER -> "fsync"
    /\ \A i \in 1..Len(C32_Events) :
         C32_Events[i].op = "write" =>
            /\ C32_Events[i].block # <<>>
            /\ Len(C32_Events[i].block) <= block_size

\* C32: write_file writes the buffer in order, block by block, each block flushed
\* and synced before the next or the return; when it returns the file holds the
\* buffer exactly, whatever it held before, and an empty file for an empty buffer.
C32_WritesWholeBufferSynced ==
    C32_Case =>
        /\ C32_EveryBlockSynced
        /\ file_data(C32_Events) = last.args.content
        /\ isfile(fs, convert_to_local_path(last.args.path))
        /\ fs.files[convert_to_local_path(last.args.path)] = last.args.content
        /\ \A q \in DOMAIN last.pre.files :
             q # convert_to_local_path(last.args.path)
                => isfile(fs, q) /\ fs.files[q] = last.pre.files[q]

\* a buffer of more than one block replaced other content of a file
C32_Witness ==
    /\ C32_Case
    /\ Len(last.args.content) > block_size
    /\ isfile(last.pre, convert_to_local_path(last.args.path))
    /\ last.pre.files[convert_to_local_path(last.args.path)] # last.args.content

(***************************************************************************)
(* C33: remove_dist above the target on the search paths of the adapters.  *)
(***************************************************************************)
\* a direct remove_dist with a target of the search path and above_target, every
\* manifest it can come to naming only files that are there
C33_Case ==
    /\ last.op = "remove_dist"
    /\ last.args.above
    /\ \E i \in 1..Len(SysPathBefore) : SysPathBefore[i] = last.args.target
    /\ \A e \in Range(AbsoluteEntries(SysPathBefore)) :
         \A m \in MetasOf(last.pre, e, last.args.name) :
            \A rel \in RecordPaths(last.pre, e, m) : isfile(last.pre, LocalOf(e, rel))

\* the entries in front of the target that are no paths of the target
C33_NotAbsolute ==
    {e \in C19_EntriesBefore(SysPathBefore, last.args.target) : ~startswith(e, <<"/">>)}

\* C33: remove_dist with above_target returns without raising on every search path
\* an adapter reports; the entries in front of the target that are not absolute
\* paths of the target ('' and '.frozen') are not scanned.
C33_AboveTargetSkipsNonPaths ==
    C33_Case => last.exc = "none"

(***************************************************************************)
(* C34: where an upload writes.                                            *)
(***************************************************************************)
\* an operation that came to its upload
C34_Case ==
    /\ last.op \in {"install", "_upload_dist_by_meta_dir"}
    /\ Truthy(last.eff)
    /\ convert_exc(last.eff) = "none"

\* local path q is the effective target or lies below it
C34_UnderTarget(q) == IsPrefix(convert_to_local_path(last.eff), q)

\* C34: an upload writes and creates nothing outside the effective target: every
\* file it writes lies below the effective target, and so does every directory it
\* makes but the effective target itself and the directories on the way to it;
\* this is so for manifest rows with '..' segments after the first component too.
C34_UploadStaysInTarget ==
    C34_Case =>
        /\ \A i \in 1..Len(last.calls) :
             last.calls[i].op = "write_file"
                => C34_UnderTarget(convert_to_local_path(last.calls[i].path))
        /\ \A q \in DOMAIN fs.files :
             (~isfile(last.pre, q) \/ last.pre.files[q] # fs.files[q])
                => C34_UnderTarget(q)
        /\ \A q \in fs.dirs \ last.pre.dirs :
             C34_UnderTarget(q) \/ IsPrefix(q, convert_to_local_path(last.eff))

(***************************************************************************)
(* C35: which meta directories remove_dist takes for a name.               *)
(***************************************************************************)
\* the locations of the target that hold meta directories
C35_Locations ==
    Range(AbsoluteEntries(SysPathBefore))
    \cup (IF Truthy(last.args.target) /\ convert_exc(last.args.target) = "none"
          THEN {last.args.target} ELSE {})

\* the name parse_meta_dir_name gives for meta directory m is name
C35_Named(m, name) == parse_ok(m) /\ parse_meta_dir_name(m)[1] = name

\* the meta directory m at e is as it was before the call
C35_Kept(e, m) ==
    Under(fs, join_path(<<e, m>>)) = Under(last.pre, join_path(<<e, m>>))

\* C35: remove_dist(name) touches only meta directories whose parsed name is name,
\* not one whose name merely starts with name and a hyphen; and its lookup finds
\* every meta directory that list_dists reports under name.
C35_RemovesOnlyNamed ==
    last.op = "remove_dist" =>
        \A e \in C35_Locations : \A m \in MetaDirsAt(last.pre, e) :
            /\ C35_Named(m, last.args.name) \/ C35_Kept(e, m)
            /\ C35_Named(m, last.args.name)
                  => m \in Range(list_meta_dir_names(World(last.pre, reversed), e,
                                                     last.args.name).val)

(***************************************************************************)
(* C36: whose sandboxes a Session removes.                                 *)
(***************************************************************************)
\* the step removes the directory of sandbox w
C36_Removed(w) == workspaces[w].exists /\ ~workspaces'[w].exists

\* the step is a command of the Session of p
C36_Actor(p) == pc[p] = "session" /\ pc'[p] # "session"

\* another process has the lock file of sandbox w locked
C36_LockedByOther(p, w) ==
    \E h \in holders : h.proc # p /\ h.venv_dir = w /\ h.file = workspaces[w].lock

\* C36: a Session removes or changes only a sandbox whose lock it holds: a purge
\* removes no sandbox that another running Session has locked, and the Session
\* removes nothing once close() has released its lock.
C36_RemovesOnlyOwnLockedSandbox ==
    [][\A p \in Procs, w \in Workspaces :
          (C36_Actor(p) /\ C36_Removed(w)) =>
              /\ ~C36_LockedByOther(p, w)
              /\ \E h \in holders' : h.proc = p /\ h.venv_dir = w]_vars

(***************************************************************************)
(* C37: the sandbox of a Session that has been constructed.                *)
(***************************************************************************)
\* the step ends the construction of the Session of p with success
C37_Constructed(p) == pc[p] = "locking" /\ pc'[p] = "session"

\* C37: when the construction of a Session succeeds, its sandbox holds a complete
\* environment with the support distributions installed, also when an earlier
\* construction on the same path failed or was interrupted after the directory was
\* made.
C37_ConstructedSandboxIsComplete ==
    [][\A p \in Procs :
          C37_Constructed(p) =>
              /\ workspaces'[_compute_venv_path(p)].exists
              /\ workspaces'[_compute_venv_path(p)].complete]_vars

(***************************************************************************)
(* C38: the effective target of install is a path of the target.           *)
(***************************************************************************)
\* an install that computed its effective target
C38_Computed == last.op = "install" /\ last.stage \in {"reconcile", "done"}

====
